---------------------------- MODULE Spec2Model ----------------------------
(***************************************************************************)
(* A model of the mapping-driven transformation engine of the ETL pipeline *)
(* (src/utils/transformer.py, dimesions.py, fact.py, progress_state.py).   *)
(*                                                                         *)
(* Data representation                                                     *)
(*   - a Python string is a sequence of one-character strings, so that     *)
(*     lower(), substring containment and endswith() are computed;         *)
(*   - a cell is a tagged record [k, v]: None, NaN, StrV(s), IntV(n),        *)
(*     FloatV(n) (a float holding the whole number n), DateV(y, m, d), NaT,  *)
(*     TsV(t) (a timestamp); Raise(e) stands for a raised exception;        *)
(*   - a DataFrame is [cols |-> sequence of column names,                  *)
(*     rows |-> sequence of functions from the column names to cells].     *)
(*   Column names and mapping keys are atomic strings: the code only uses  *)
(*   them as dictionary keys in the operations modelled here.              *)
(***************************************************************************)
EXTENDS Integers, Sequences, FiniteSets, TLC

VARIABLES
    (* the inputs of transform_data *)
    mappings, source_df, dest_tables, company, country, calc_method,
    activity_cat, activity_subcat, ReportingYear,
    (* the locals of transform_data *)
    country_df, company_df, date_df, currency_df,
    activity_emmission_source_provider_df, unit_df,
    (* the locals of generate_fact *)
    result_df, emission_ids, index,
    (* st.session_state.progress *)
    progress,
    (* control: the position in transform_data, the exception raised, the  *)
    (* value returned, and the clock that pd.Timestamp.now() reads         *)
    pc, err, returned, now,
    (* the last call of lookup_value made by the lookup specification *)
    lk,
    (* the dimension table and the last call of the synchronizer           *)
    (* specification                                                       *)
    dim,
    (* the last call of calculate_airport_distance made by the airport     *)
    (* specification                                                       *)
    air,
    (* the schema sheet, the schema loaded from it, the table and the      *)
    (* issues of the validator specification                               *)
    val

runInputs == <<mappings, source_df, dest_tables, company, country, calc_method,
               activity_cat, activity_subcat, ReportingYear>>
dimLocals == <<country_df, company_df, date_df, currency_df,
               activity_emmission_source_provider_df, unit_df>>
factLocals == <<result_df, emission_ids, index, progress>>
control == <<pc, err, returned, now>>
vars == <<runInputs, dimLocals, factLocals, control, lk, dim, air, val>>

---------------------------------------------------------------------------
(* Bounds of the model *)

MaxRows == 2        \* rows of the source table
MaxLkRows == 2      \* rows of a table handed to lookup_value
MaxCalls == 2       \* successive calls of one synchronizer on its own output

---------------------------------------------------------------------------
(* Strings *)

Range(s) == {s[i] : i \in 1..Len(s)}

UpperChars == <<"A","B","C","D","E","F","G","H","I","J","K","L","M",
                "N","O","P","Q","R","S","T","U","V","W","X","Y","Z">>
LowerChars == <<"a","b","c","d","e","f","g","h","i","j","k","l","m",
                "n","o","p","q","r","s","t","u","v","w","x","y","z">>
DigitChars == <<"0","1","2","3","4","5","6","7","8","9">>

(* str.lower() *)
Lower(s) ==
    [i \in 1..Len(s) |->
        IF \E j \in 1..Len(UpperChars) : UpperChars[j] = s[i]
        THEN LowerChars[CHOOSE j \in 1..Len(UpperChars) : UpperChars[j] = s[i]]
        ELSE s[i]]

(* str.upper() *)
Upper(s) ==
    [i \in 1..Len(s) |->
        IF \E j \in 1..Len(LowerChars) : LowerChars[j] = s[i]
        THEN UpperChars[CHOOSE j \in 1..Len(LowerChars) : LowerChars[j] = s[i]]
        ELSE s[i]]

(* str.strip(): the blanks at both ends go *)
Strip(s) ==
    LET inner == {i \in 1..Len(s) : s[i] # " "}
    IN  IF inner = {} THEN <<>>
        ELSE SubSeq(s, CHOOSE i \in inner : \A j \in inner : i <= j,
                       CHOOSE i \in inner : \A j \in inner : j <= i)

IsDigits(s) == Len(s) > 0 /\ \A i \in 1..Len(s) : s[i] \in Range(DigitChars)

RECURSIVE ParseNat(_)
(* int(s) of a string of digits *)
ParseNat(s) ==
    IF Len(s) = 0 THEN 0
    ELSE 10 * ParseNat(SubSeq(s, 1, Len(s) - 1))
         + ((CHOOSE i \in 1..10 : DigitChars[i] = s[Len(s)]) - 1)

(* `pat in s` for strings; also Series.str.contains(pat) for a pattern     *)
(* without regular-expression metacharacters (the strings of this model    *)
(* are letters and digits), on which the regex search and the literal      *)
(* search agree.                                                           *)
StrContains(s, pat) ==
    \E i \in 1..(Len(s) - Len(pat) + 1) : SubSeq(s, i, i + Len(pat) - 1) = pat

(* str.endswith(suffix) *)
EndsWith(s, suffix) ==
    /\ Len(suffix) <= Len(s)
    /\ SubSeq(s, Len(s) - Len(suffix) + 1, Len(s)) = suffix

RECURSIVE Digits(_)
(* str(n) of a natural number *)
Digits(n) ==
    IF n < 10 THEN <<DigitChars[n + 1]>>
    ELSE Digits(n \div 10) \o <<DigitChars[(n % 10) + 1]>>

(* n written with at least w digits: the %m, %d and %Y of strftime *)
Pad(n, w) ==
    LET d == Digits(n)
    IN  [i \in 1..(w - Len(d)) |-> "0"] \o d

---------------------------------------------------------------------------
(* Cells *)

None == [k |-> "None", v |-> 0]
NaN == [k |-> "NaN", v |-> 0]
NaT == [k |-> "NaT", v |-> 0]
StrV(s) == [k |-> "str", v |-> s]
IntV(n) == [k |-> "int", v |-> n]
FloatV(n) == [k |-> "float", v |-> n]
DateV(y, m, d) == [k |-> "date", v |-> <<y, m, d>>]
TsV(t) == [k |-> "ts", v |-> t]
ColV(name) == [k |-> "col", v |-> name]     \* a source column name in a mapping
Raise(e) == [k |-> "raise", v |-> e]

IsRaise(x) == "k" \in DOMAIN x /\ x.k = "raise"
IsTable(x) == "cols" \in DOMAIN x
(* pd.isna / pd.notna *)
IsNA(c) == c.k \in {"None", "NaN", "NaT"}

(* str(x), and what Series.astype(str) makes of a cell *)
ToStr(c) ==
    CASE c.k = "str" -> c.v
      [] c.k = "int" -> Digits(c.v)
      [] c.k = "float" -> Digits(c.v) \o <<".", "0">>
      [] c.k = "None" -> <<"N", "o", "n", "e">>
      [] c.k = "NaN" -> <<"n", "a", "n">>
      [] c.k = "NaT" -> <<"N", "a", "T">>
      [] c.k = "date" -> Pad(c.v[1], 4) \o <<"-">> \o Pad(c.v[2], 2)
                         \o <<"-">> \o Pad(c.v[3], 2)
      [] OTHER -> <<"?">>

---------------------------------------------------------------------------
(* DataFrames *)

DataFrame(cols, rows) == [cols |-> cols, rows |-> rows]

(* df.empty: no row, or no column *)
Empty(df) == Len(df.rows) = 0 \/ Len(df.cols) = 0

(* the columns of `extra` that `cols` lacks, in the order of `extra` *)
NewCols(cols, extra) == SelectSeq(extra, LAMBDA c : c \notin Range(cols))

(* pd.concat([df, pd.DataFrame([new_row])], ignore_index=True): the        *)
(* columns are those of df followed by the new ones of the row, and a cell *)
(* that a row has no value for is NaN.                                     *)
Concat(df, rowCols, row) ==
    LET cols == df.cols \o NewCols(df.cols, rowCols)
        widen(r, have) == [c \in Range(cols) |-> IF c \in have THEN r[c] ELSE NaN]
    IN  DataFrame(cols,
                  [i \in 1..Len(df.rows) |-> widen(df.rows[i], Range(df.cols))]
                  \o <<widen(row, Range(rowCols))>>)

Indices(df) == [i \in 1..Len(df.rows) |-> i]

(* df[column].max() over the cells that are not NA; NaN when there is none *)
ColMax(df, column) ==
    LET vals == {df.rows[i][column].v : i \in {j \in 1..Len(df.rows) :
                                                  ~IsNA(df.rows[j][column])}}
    IN  IF vals = {} THEN NaN
        ELSE IntV(CHOOSE m \in vals : \A x \in vals : x <= m)

(* Series.unique(): the distinct cells in first-seen order *)
Unique(s) == SelectSeq([i \in 1..Len(s) |-> IF \E j \in 1..(i - 1) : s[j] = s[i]
                                           THEN Raise("dup") ELSE s[i]],
                       LAMBDA c : ~IsRaise(c))

(* Series.dropna() *)
DropNA(s) == SelectSeq(s, LAMBDA c : ~IsNA(c))

(* df[column] as the sequence of its cells *)
Column(df, column) == [i \in 1..Len(df.rows) |-> df.rows[i][column]]

(* df[column].str.contains(pat).any(): a cell that is not a string gives   *)
(* NaN, which any() skips                                                  *)
AnyContains(df, column, pat) ==
    \E i \in 1..Len(df.rows) :
        /\ df.rows[i][column].k = "str"
        /\ StrContains(df.rows[i][column].v, pat)

(* df[id_column].max() without the + 1 *)
MaxOnly(df, id_column) == ColMax(df, id_column)

(* df[id_column].max() + 1 *)
MaxPlusOne(df, id_column) ==
    LET m == ColMax(df, id_column)
    IN  IF IsNA(m) THEN NaN ELSE IntV(m.v + 1)

---------------------------------------------------------------------------
(* The mapping: a dict in insertion order, as a sequence of                *)
(* [key, info]; info is a dict, a function from some of the entry's field  *)
(* names to None, ColV(source column) or StrV(consumption type).           *)

HasKey(m, key) == \E i \in 1..Len(m) : m[i].key = key
Item(m, key) == m[CHOOSE i \in 1..Len(m) : m[i].key = key].info
(* info.get(field, default) *)
Get(info, field, default) == IF field \in DOMAIN info THEN info[field] ELSE default
(* mapping[key]['source_column'], KeyError included *)
SourceColumnOf(m, key) ==
    IF ~HasKey(m, key) \/ "source_column" \notin DOMAIN Item(m, key)
    THEN Raise("KeyError")
    ELSE Item(m, key)["source_column"]
(* source_column in source_df.columns *)
InColumns(sc, df) == sc.k = "col" /\ sc.v \in Range(df.cols)

---------------------------------------------------------------------------
(* dimesions.py *)

(* get_next_incremental_id with the + 1 left out: the next ID repeats the  *)
(* largest one.                                                            *)
get_next_incremental_id_repeats_max(df, column_name) ==
    IF Empty(df) THEN IntV(1)
    ELSE IF column_name \in Range(df.cols)
    THEN (IF IsNA(ColMax(df, column_name)) THEN IntV(1)
          ELSE ColMax(df, column_name))
    ELSE None

(* get_next_incremental_id(df, column_name), the same in dimesions.py and  *)
(* fact.py                                                                 *)
get_next_incremental_id(df, column_name) ==
    IF Empty(df) THEN IntV(1)
    ELSE IF column_name \in Range(df.cols)
    THEN (IF IsNA(ColMax(df, column_name)) THEN IntV(1)
          ELSE IntV(ColMax(df, column_name).v + 1))
    ELSE None

(* The new_record of transform_dimension, transform_D_Currency and         *)
(* transform_unit: an ID, one value and the two timestamps.                *)
NewRecordCols(id_column, value_column) ==
    <<id_column, value_column, "created_at", "updated_at">>
NewRecord(id_column, new_id, value_column, value, t) ==
    [c \in {id_column, value_column, "created_at", "updated_at"} |->
        IF c = id_column THEN new_id
        ELSE IF c = value_column THEN value ELSE TsV(t)]

(* transform_dimension that appends nothing. *)
transform_dimension_never_appends(source_value, dest_df, value_column, id_column, t) ==
    dest_df

(* The table object that transform_dimension hands back when it appends    *)
(* nothing, for the destination sheet it was given: df = dest_df.copy() is *)
(* a table of the run's own, and so is every result of pd.concat.          *)
OwnTable == "own"
transform_dimension_without_copy(sheet) == sheet
transform_dimension_object(sheet) == OwnTable

(* transform_dimension(source_value, dest_df, value_column, id_column) *)
transform_dimension(source_value, dest_df, value_column, id_column, t) ==
    LET df == dest_df
    IN  IF ~AnyContains(df, value_column, source_value)
        THEN LET new_id == IF Len(df.rows) > 0 THEN MaxPlusOne(df, id_column)
                           ELSE IntV(1)
             IN  Concat(df, NewRecordCols(id_column, value_column),
                        NewRecord(id_column, new_id, value_column,
                                  StrV(source_value), t))
        ELSE df

(* relate_country_company writing the country into every company row.     *)
relate_country_company_every_row(country_, company_, company_df_, country_df_, t) ==
    LET found == SelectSeq(Indices(country_df_),
                    LAMBDA i : country_df_.rows[i]["CountryName"] = StrV(country_))
    IN  IF found # <<>>
        THEN DataFrame(company_df_.cols, [i \in 1..Len(company_df_.rows) |->
                 [company_df_.rows[i] EXCEPT
                     !["CountryID"] = country_df_.rows[found[1]]["CountryID"],
                     !["updated_at"] = TsV(t)]])
        ELSE company_df_

(* relate_country_company(country, company, company_df, country_df): the   *)
(* comparisons are ==, exact and case-sensitive; .loc[rows, column] = v    *)
(* adds the column when the table lacks it.                                *)
relate_country_company(country_, company_, company_df_, country_df_, t) ==
    LET found == SelectSeq(Indices(country_df_),
                    LAMBDA i : country_df_.rows[i]["CountryName"] = StrV(country_))
    IN  IF found # <<>>
        THEN LET country_id == country_df_.rows[found[1]]["CountryID"]
                 cols == company_df_.cols
                         \o NewCols(company_df_.cols, <<"CountryID", "updated_at">>)
                 set(r) == [c \in Range(cols) |->
                     IF r["CompanyName"] = StrV(company_)
                     THEN (IF c = "CountryID" THEN country_id
                           ELSE IF c = "updated_at" THEN TsV(t)
                           ELSE r[c])
                     ELSE (IF c \in Range(company_df_.cols) THEN r[c] ELSE NaN)]
             IN  DataFrame(cols, [i \in 1..Len(company_df_.rows) |->
                                     set(company_df_.rows[i])])
        ELSE company_df_

(* The dtype of a source column as load_excel (pd.read_excel) infers it:    *)
(* datetime64 when the column holds dates, and blanks (NaT) besides.       *)
IsDatetimeColumn(df, column) ==
    /\ \A i \in 1..Len(df.rows) : df.rows[i][column].k \in {"date", "NaT"}
    /\ \E i \in 1..Len(df.rows) : df.rows[i][column].k = "date"

(* .dt.quarter of a month, and the last day of the quarter *)
QuarterOf(m) == ((m - 1) \div 3) + 1
QuarterEndDay(q) == IF q \in {1, 4} THEN 31 ELSE 30

(* date.strftime('%Y%m%d'), date.strftime('%d-%m-%Y') *)
StrfYmd(y, m, d) == Pad(y, 4) \o Pad(m, 2) \o Pad(d, 2)
StrfDmy(y, m, d) == Pad(d, 2) \o <<"-">> \o Pad(m, 2) \o <<"-">> \o Pad(y, 4)

(* ' Report', the end of both Description formats *)
Report_ == <<" ", "R", "e", "p", "o", "r", "t">>

DateCols == <<"DateKey", "StartDate", "EndDate", "Description", "Year", "Quarter",
              "Month", "Day", "created_at", "updated_at">>

(* An integer column of the date table: int64, but float64 as soon as one  *)
(* date of the source column is NaT.                                       *)
DtNum(n, anyNaT) == IF anyNaT THEN FloatV(n) ELSE IntV(n)

(* The row of the date table derived from one cell of the date column. *)
DateRowOf(c, anyNaT, t) ==
    LET y == c.v[1]
        m == c.v[2]
        d == c.v[3]
        q == QuarterOf(m)
    IN  [col \in Range(DateCols) |->
          CASE col = "DateKey" -> IF c = NaT THEN NaN ELSE StrV(StrfYmd(y, m, d))
            [] col = "StartDate" ->
                 IF c = NaT THEN NaN ELSE StrV(StrfDmy(y, 3 * (q - 1) + 1, 1))
            [] col = "EndDate" ->
                 IF c = NaT THEN NaN ELSE StrV(StrfDmy(y, 3 * q, QuarterEndDay(q)))
            [] col = "Description" ->
                 IF c = NaT THEN StrV(ToStr(NaN) \o <<" ", "Q", "u", "a", "r", "t", "e", "r", " ">> \o ToStr(NaN) \o Report_)
                 ELSE StrV(ToStr(DtNum(y, anyNaT)) \o <<" ", "Q", "u", "a", "r", "t", "e", "r", " ">>
                           \o ToStr(DtNum(q, anyNaT)) \o Report_)
            [] col = "Year" -> IF c = NaT THEN NaN ELSE DtNum(y, anyNaT)
            [] col = "Quarter" -> IF c = NaT THEN NaN ELSE DtNum(q, anyNaT)
            [] col = "Month" -> IF c = NaT THEN NaN ELSE DtNum(m, anyNaT)
            [] col = "Day" -> IF c = NaT THEN NaN ELSE DtNum(d, anyNaT)
            [] OTHER -> TsV(t)]

(* The single row of the else branch of transform_D_Date. *)
YearRow(year, t) ==
    [col \in Range(DateCols) |->
      CASE col = "DateKey" -> StrV(Digits(year) \o <<"0", "1", "0", "1">>)
        [] col = "StartDate" -> StrV(<<"0", "1", "-", "0", "1", "-">> \o Digits(year))
        [] col = "EndDate" -> StrV(<<"3", "1", "-", "1", "2", "-">> \o Digits(year))
        [] col = "Description" -> StrV(Digits(year) \o <<" ", "A", "n", "n", "u", "a", "l">>
                                      \o Report_)
        [] col = "Year" -> IntV(year)
        [] col \in {"Quarter", "Month", "Day"} -> IntV(1)
        [] OTHER -> TsV(t)]

(* drop_duplicates with the de-duplication left out: every row stays. *)
drop_duplicates_keeps_all(df, subset) == df

(* df.drop_duplicates(subset=column).reset_index(drop=True): the first row *)
(* of each value stays, in the order of the table                          *)
drop_duplicates(df, subset) ==
    DataFrame(df.cols,
        [j \in 1..Len(SelectSeq(Indices(df),
             LAMBDA i : ~\E h \in 1..(i - 1) : df.rows[h][subset] = df.rows[i][subset]))
         |-> df.rows[SelectSeq(Indices(df),
             LAMBDA i : ~\E h \in 1..(i - 1) :
                          df.rows[h][subset] = df.rows[i][subset])[j]]])

(* transform_D_Date(mapping, source_df, ReportingYear) *)
transform_D_Date(mapping, source_df_, ReportingYear_, t) ==
    LET sc == SourceColumnOf(mapping, "DateKey")
    IN  IF IsRaise(sc) THEN sc
        ELSE IF sc # None /\ InColumns(sc, source_df_)
        THEN IF ~IsDatetimeColumn(source_df_, sc.v) THEN Raise("AttributeError")
             ELSE LET date_col == Column(source_df_, sc.v)
                      anyNaT == \E i \in 1..Len(date_col) : date_col[i] = NaT
                  IN  drop_duplicates(
                          DataFrame(DateCols, [i \in 1..Len(date_col) |->
                                       DateRowOf(date_col[i], anyNaT, t)]),
                          "DateKey")
        ELSE drop_duplicates(DataFrame(DateCols, <<YearRow(ReportingYear_, t)>>),
                             "DateKey")

RECURSIVE CurrencyLoop(_, _, _)
(* The loop of transform_D_Currency over unique_currencies: the new record *)
(* holds the currency under CurrencyName; str.contains raises TypeError    *)
(* for a pattern that is not a string.                                     *)
CurrencyLoop(unique_currencies, df, t) ==
    IF unique_currencies = <<>> THEN df
    ELSE LET currency == Head(unique_currencies)
         IN  IF currency.k # "str" THEN Raise("TypeError")
             ELSE IF ~AnyContains(df, "CurrencyCode", currency.v)
             THEN LET new_id == IF Len(df.rows) > 0 THEN MaxPlusOne(df, "CurrencyID")
                                ELSE IntV(1)
                  IN  CurrencyLoop(Tail(unique_currencies),
                          Concat(df, NewRecordCols("CurrencyID", "CurrencyName"),
                                 NewRecord("CurrencyID", new_id, "CurrencyName",
                                           currency, t)),
                          t)
             ELSE CurrencyLoop(Tail(unique_currencies), df, t)

(* transform_D_Currency(mapping, source_df, dest_df): there is no return   *)
(* on the path where the column is not mapped, so the call gives None.     *)
transform_D_Currency(mapping, source_df_, dest_df, t) ==
    LET sc == SourceColumnOf(mapping, "CurrencyID")
    IN  IF IsRaise(sc) THEN sc
        ELSE IF sc # None /\ InColumns(sc, source_df_)
        THEN CurrencyLoop(Unique(Column(source_df_, sc.v)), dest_df, t)
        ELSE None

RECURSIVE ProviderLoop(_, _, _)
(* The loop of transform_emission_source_provider: the presence test reads *)
(* df, the table passed in, and the rows go to result_df.                  *)
ProviderLoop(providers, df, result_df_) ==
    IF providers = <<>> THEN result_df_
    ELSE LET provider == Head(providers)
         IN  IF provider.k # "str" THEN Raise("TypeError")
             ELSE IF ~AnyContains(df, "ProviderName", provider.v)
             THEN ProviderLoop(Tail(providers), df,
                      Concat(result_df_,
                             <<"ActivityEmissionSourceProviderID", "ProviderName">>,
                             [c \in {"ActivityEmissionSourceProviderID", "ProviderName"}
                                |-> IF c = "ProviderName" THEN provider
                                    ELSE get_next_incremental_id(result_df_,
                                             "ActivityEmissionSourceProviderID")]))
             ELSE ProviderLoop(Tail(providers), df, result_df_)

(* transform_emission_source_provider(mapping, source_df, df) *)
transform_emission_source_provider(mapping, source_df_, df) ==
    IF \/ ~HasKey(mapping, "ActivityEmissionSourceProviderID")
       \/ DOMAIN Item(mapping, "ActivityEmissionSourceProviderID") = {}
       \/ "source_column" \notin DOMAIN Item(mapping, "ActivityEmissionSourceProviderID")
    THEN df
    ELSE LET source_column == Item(mapping, "ActivityEmissionSourceProviderID")["source_column"]
         IN  IF ~InColumns(source_column, source_df_) THEN df
             ELSE ProviderLoop(Unique(DropNA(Column(source_df_, source_column.v))),
                               df, df)

RECURSIVE UnitLoop(_, _, _)
(* The loop of transform_unit: each unit is converted with str(). *)
UnitLoop(unique_units, df, t) ==
    IF unique_units = <<>> THEN df
    ELSE LET unit == ToStr(Head(unique_units))
         IN  IF ~AnyContains(df, "UnitName", unit)
             THEN LET new_id == IF Len(df.rows) > 0 THEN MaxPlusOne(df, "UnitID")
                                ELSE IntV(1)
                  IN  UnitLoop(Tail(unique_units),
                          Concat(df, NewRecordCols("UnitID", "UnitName"),
                                 NewRecord("UnitID", new_id, "UnitName", StrV(unit), t)),
                          t)
             ELSE UnitLoop(Tail(unique_units), df, t)

(* transform_unit(mapping, source_df, dest_df, calc_method) *)
transform_unit(mapping, source_df_, dest_df, calc_method_, t) ==
    LET sc == SourceColumnOf(mapping, "UnitID")
    IN  IF IsRaise(sc) THEN sc
        ELSE IF sc # None /\ InColumns(sc, source_df_)
                /\ calc_method_ = "Consumption-based"
        THEN UnitLoop(Unique(DropNA(Column(source_df_, sc.v))), dest_df, t)
        ELSE dest_df

---------------------------------------------------------------------------
(* fact.py: lookup_value *)

(* lookup_value with the lower-casing left out: the comparison is exact. *)
lookup_value_case_sensitive(df, lookup_column, value, return_column) ==
    IF Empty(df) \/ value = None THEN None
    ELSE IF lookup_column \notin Range(df.cols) \/ return_column \notin Range(df.cols)
    THEN Raise("KeyError")
    ELSE LET hits == SelectSeq(Indices(df),
                 LAMBDA i : ToStr(df.rows[i][lookup_column]) = ToStr(value))
         IN  IF hits # <<>> THEN df.rows[hits[1]][return_column] ELSE None

(* lookup_value(df, lookup_column, lookup_value, return_column).  The mask *)
(* is df[lookup_column].astype(str).str.lower() == str(lookup_value)       *)
(* .lower(); result is df.loc[mask, return_column] and the value returned  *)
(* is result.iloc[0].  df[lookup_column] and df.loc[mask, return_column]   *)
(* raise KeyError for a column the table does not have.                    *)
lookup_value(df, lookup_column, value, return_column) ==
    IF Empty(df) \/ value = None THEN None
    ELSE IF lookup_column \notin Range(df.cols) \/ return_column \notin Range(df.cols)
    THEN Raise("KeyError")
    ELSE LET mask == [i \in 1..Len(df.rows) |->
                         Lower(ToStr(df.rows[i][lookup_column])) = Lower(ToStr(value))]
             hits == SelectSeq(Indices(df), LAMBDA i : mask[i])
             result == [j \in 1..Len(hits) |-> df.rows[hits[j]][return_column]]
         IN  IF result # <<>> THEN result[1] ELSE None

---------------------------------------------------------------------------
(* Python conversions and truth values *)

(* bool(x) *)
Truthy(c) ==
    CASE c.k = "None" -> FALSE
      [] c.k = "str" -> Len(c.v) > 0
      [] c.k = "col" -> c.v # ""
      [] c.k \in {"int", "float"} -> c.v # 0
      [] OTHER -> TRUE

(* int(x) *)
ToInt(c) ==
    CASE c.k \in {"int", "float"} -> IntV(c.v)
      [] c.k = "str" -> IF IsDigits(Strip(c.v)) THEN IntV(ParseNat(Strip(c.v)))
                        ELSE Raise("ValueError")
      [] c.k = "NaN" -> Raise("ValueError")
      [] OTHER -> Raise("TypeError")

(* float(x): float('nan') is the cell NaN *)
ToFloat(c) ==
    CASE c.k \in {"int", "float"} -> FloatV(c.v)
      [] c.k = "km" -> c
      [] c.k = "str" -> IF IsDigits(Strip(c.v)) THEN FloatV(ParseNat(Strip(c.v)))
                        ELSE Raise("ValueError")
      [] c.k = "NaN" -> NaN
      [] OTHER -> Raise("TypeError")

(* float(x) if x is not None else None, with the cast left out *)
OptFloat_uncast(c) == c

(* int(x) if x is not None else None *)
OptInt(c) == IF c = None THEN None ELSE ToInt(c)
(* float(x) if x is not None else None *)
OptFloat(c) == IF c = None THEN None ELSE ToFloat(c)

(* Series.get(key): None for a key the row does not have *)
RowGet(row, sc) == IF sc.k = "col" /\ sc.v \in DOMAIN row THEN row[sc.v] ELSE None

---------------------------------------------------------------------------
(* airport_distance.py *)

(* The keys of AIRPORT_COORDINATES that the tables of the model can hold. *)
AIRPORT_COORDINATES ==
    {<<"J", "F", "K">>, <<"L", "H", "R">>, <<"D", "E", "L">>}

(* get_airport_coordinates(iata_code): the airport found stands for its    *)
(* coordinates; strip() of a value that is not a string raises.            *)
get_airport_coordinates(iata_code) ==
    IF ~Truthy(iata_code) THEN None
    ELSE IF iata_code.k # "str" THEN Raise("AttributeError")
    ELSE IF Upper(Strip(iata_code.v)) \in AIRPORT_COORDINATES
    THEN StrV(Upper(Strip(iata_code.v)))
    ELSE None

(* round(geodesic(a, b).kilometers, 2): 0.0 for one and the same place,    *)
(* and otherwise a positive length that depends on the two places only.    *)
Geodesic(a, b) == IF a = b THEN FloatV(0) ELSE [k |-> "km", v |-> {a, b}]

(* calculate_airport_distance with the try/except left out: an exception  *)
(* of get_airport_coordinates reaches the caller.                          *)
calculate_airport_distance_uncaught(origin_code, destination_code) ==
    IF ~Truthy(origin_code) \/ ~Truthy(destination_code) THEN None
    ELSE LET origin_coords == get_airport_coordinates(origin_code)
             dest_coords == get_airport_coordinates(destination_code)
         IN  IF IsRaise(origin_coords) THEN origin_coords
             ELSE IF IsRaise(dest_coords) THEN dest_coords
             ELSE IF ~Truthy(origin_coords) \/ ~Truthy(dest_coords) THEN None
             ELSE Geodesic(origin_coords.v, dest_coords.v)

(* calculate_airport_distance(origin_code, destination_code): every        *)
(* exception is caught and gives None.                                     *)
calculate_airport_distance(origin_code, destination_code) ==
    IF ~Truthy(origin_code) \/ ~Truthy(destination_code) THEN None
    ELSE LET origin_coords == get_airport_coordinates(origin_code)
             dest_coords == get_airport_coordinates(destination_code)
         IN  IF IsRaise(origin_coords) \/ IsRaise(dest_coords) THEN None
             ELSE IF ~Truthy(origin_coords) \/ ~Truthy(dest_coords) THEN None
             ELSE Geodesic(origin_coords.v, dest_coords.v)

---------------------------------------------------------------------------
(* fact.py: the emission source, the date key, the empty fact table *)

Distance == <<"D", "i", "s", "t", "a", "n", "c", "e">>
Fuel == <<"F", "u", "e", "l">>
Currency == <<"C", "u", "r", "r", "e", "n", "c", "y">>
BusinessTravel == <<"B", "u", "s", "i", "n", "e", "s", "s", " ",
                    "T", "r", "a", "v", "e", "l">>
AirTravel == <<"A", "i", "r", " ", "T", "r", "a", "v", "e", "l">>

(* valid_transformations of find_emission_ids, for a calc_method *)
valid_transformations(calc_method_) ==
    IF calc_method_ = "Consumption-based"
    THEN {Distance, Fuel, <<"E", "l", "e", "c", "t", "r", "i", "c", "i", "t", "y">>,
          <<"H", "e", "a", "t", "i", "n", "g">>, <<"D", "a", "y", "s">>}
    ELSE {Currency}

(* get_emission_source_id_by_suffix(df, subcategory_id, suffix) *)
get_emission_source_id_by_suffix(df, subcategory_id, suffix) ==
    LET filtered == SelectSeq(Indices(df), LAMBDA i :
            /\ df.rows[i]["ActivitySubcategoryID"] = subcategory_id
            /\ df.rows[i]["ActivityEmissionSourceName"].k = "str"
            /\ EndsWith(Lower(df.rows[i]["ActivityEmissionSourceName"].v),
                        Lower(suffix)))
    IN  IF filtered # <<>> THEN df.rows[filtered[1]]["ActivityEmissionSourceID"]
        ELSE None

(* `amount_key in key` for the keys of the mapping: of the fact columns    *)
(* that the mappings of the model name, ConsumptionAmount alone contains   *)
(* 'ConsumptionAmount'.                                                    *)
AmountKeyIn(key) == key = "ConsumptionAmount"

RECURSIVE FindTransformation(_, _)
(* The loop of find_emission_ids over mappings.items(): the lower-cased    *)
(* consumption_type of the first entry that has an admissible one, None    *)
(* when there is none; .lower() of a consumption_type that is None raises. *)
FindTransformation(m, valid) ==
    IF m = <<>> THEN None
    ELSE IF AmountKeyIn(Head(m).key)
    THEN LET ct == Get(Head(m).info, "consumption_type", StrV(<<>>))
         IN  IF ct.k # "str" THEN Raise("AttributeError")
             ELSE IF Lower(ct.v) \in {Lower(x) : x \in valid}
             THEN StrV(Lower(ct.v))
             ELSE FindTransformation(Tail(m), valid)
    ELSE FindTransformation(Tail(m), valid)

(* The three values with the ID of the emission source in the place of    *)
(* the unit.                                                               *)
Ids_unit_of_source_id(emission_source_id, unit_id, emission_factor_id) ==
    [emission_source_id |-> emission_source_id, unit_id |-> emission_source_id,
     emission_factor_id |-> emission_factor_id]

(* The three values that find_emission_ids returns. *)
Ids(emission_source_id, unit_id, emission_factor_id) ==
    [emission_source_id |-> emission_source_id, unit_id |-> unit_id,
     emission_factor_id |-> emission_factor_id]
NoIds == Ids(None, None, None)

(* find_emission_ids(mappings, activity_subcat, activity_subcat_df,        *)
(* activity_emission_source_df, country_df, country, calc_method)          *)
find_emission_ids(m, activity_subcat_, activity_subcat_df, activity_emission_source_df, country_df_, country_, calc_method_) ==
    LET activity_sub_cat_id == lookup_value(activity_subcat_df,
            "ActivitySubcategoryName", StrV(activity_subcat_), "ActivitySubcategoryID")
        iso2_code == lookup_value(country_df_, "CountryName", StrV(country_), "ISO2Code")
        transformation == FindTransformation(m, valid_transformations(calc_method_))
    IN  IF IsRaise(transformation) THEN transformation
        ELSE IF ~Truthy(transformation) THEN NoIds
        ELSE LET emission_source_id == get_emission_source_id_by_suffix(
                     activity_emission_source_df, activity_sub_cat_id, transformation.v)
             IN  IF ~Truthy(emission_source_id) THEN NoIds
                 ELSE LET unit_id == lookup_value(activity_emission_source_df,
                              "ActivityEmissionSourceID", emission_source_id, "UnitID")
                          emission_source_name == lookup_value(
                              activity_emission_source_df, "ActivityEmissionSourceID",
                              emission_source_id, "ActivityEmissionSourceName")
                      IN  Ids(emission_source_id, unit_id,
                              StrV(ToStr(iso2_code) \o <<"_">>
                                   \o ToStr(emission_source_name)))

(* pd.to_datetime(value, errors='coerce') for the cells of the model: a    *)
(* number counts nanoseconds from 1970-01-01, a string of the model is no  *)
(* date.                                                                   *)
ToDatetime(c) ==
    CASE c.k = "date" -> c
      [] c.k \in {"int", "float"} -> DateV(1970, 1, 1)
      [] OTHER -> NaT

(* get_date_key(date_df, source_column, year, date_value) *)
get_date_key(date_df_, source_column, year, date_value) ==
    IF source_column = None \/ source_column = ColV("null") \/ date_value = None
    THEN lookup_value(date_df_, "Year", IntV(year), "DateKey")
    ELSE LET source_date == ToDatetime(date_value)
         IN  IF IsNA(source_date)
             THEN lookup_value(date_df_, "Year", IntV(year), "DateKey")
             ELSE lookup_value(date_df_, "DateKey",
                      StrV(StrfYmd(source_date.v[1], source_date.v[2], source_date.v[3])),
                      "DateKey")

(* create_empty_fact_table_structure with the rows of the destination     *)
(* table kept.                                                             *)
create_fact_table_from_destination(dest_df) == dest_df

(* create_empty_fact_table_structure(dest_df) *)
create_empty_fact_table_structure(dest_df) == DataFrame(dest_df.cols, <<>>)

---------------------------------------------------------------------------
(* fact.py: generate_fact *)

(* The characters of the source column names of the model. *)
ColChars(name) ==
    CASE name = "Code" -> <<"C", "o", "d", "e">>
      [] name = "Amount" -> <<"A", "m", "o", "u", "n", "t">>
      [] name = "Date" -> <<"D", "a", "t", "e">>
      [] name = "Origin" -> <<"O", "r", "i", "g", "i", "n">>
      [] name = "Destination" -> <<"D", "e", "s", "t", "i", "n", "a", "t", "i", "o", "n">>
      [] name = "Vendor" -> <<"V", "e", "n", "d", "o", "r">>
      [] name = "Hub" -> <<"H", "u", "b">>
      [] name = "Via" -> <<"V", "i", "a">>
      [] name = "Leg" -> <<"L", "e", "g">>
      [] OTHER -> <<>>

origin_patterns ==
    {<<"o", "r", "i", "g", "i", "n">>, <<"d", "e", "p", "a", "r", "t", "u", "r", "e">>,
     <<"f", "r", "o", "m">>, <<"s", "t", "a", "r", "t">>,
     <<"s", "o", "u", "r", "c", "e">>, <<"d", "e", "p", "a", "r", "t">>}
destination_patterns ==
    {<<"d", "e", "s", "t", "i", "n", "a", "t", "i", "o", "n">>,
     <<"a", "r", "r", "i", "v", "a", "l">>, <<"t", "o">>, <<"e", "n", "d">>,
     <<"d", "e", "s", "t">>, <<"a", "r", "r", "i", "v", "e">>,
     <<"t", "a", "r", "g", "e", "t">>}

IsOriginName(column) ==
    \E pattern \in origin_patterns : StrContains(Strip(Lower(ColChars(column))), pattern)
IsDestinationName(column) ==
    /\ ~IsOriginName(column)
    /\ \E pattern \in destination_patterns :
          StrContains(Strip(Lower(ColChars(column))), pattern)

(* The loop over source_df.columns that detects the airport columns: each  *)
(* matching column is assigned in turn, so the last one stays.             *)
LastOf(hits) == IF hits = <<>> THEN None ELSE ColV(hits[Len(hits)])
origin_column(df) == LastOf(SelectSeq(df.cols, IsOriginName))
destination_column(df) == LastOf(SelectSeq(df.cols, IsDestinationName))

IsAirTravelRun(calc_method_, activity_cat_, activity_subcat_) ==
    /\ calc_method_ = "Consumption-based"
    /\ Lower(activity_cat_) = Lower(BusinessTravel)
    /\ Lower(activity_subcat_) = Lower(AirTravel)

(* Method 2 without the test of the airport table: every string of three   *)
(* characters counts as a code.                                            *)
AirportCodesOf_any_three_chars(df, source_row) ==
    LET cells == [i \in 1..Len(df.cols) |-> RowGet(source_row, ColV(df.cols[i]))]
        ok == SelectSeq(cells, LAMBDA value :
                  /\ Truthy(value)
                  /\ value.k = "str"
                  /\ Len(Strip(value.v)) = 3)
    IN  [i \in 1..Len(ok) |-> StrV(Upper(Strip(ok[i].v)))]

(* Method 2 of the distance calculation: the cells of the row, in column   *)
(* order, that are strings of three characters and keys of the airport     *)
(* table.                                                                  *)
AirportCodesOf(df, source_row) ==
    LET cells == [i \in 1..Len(df.cols) |-> RowGet(source_row, ColV(df.cols[i]))]
        ok == SelectSeq(cells, LAMBDA value :
                  /\ Truthy(value)
                  /\ value.k = "str"
                  /\ Len(Strip(value.v)) = 3
                  /\ Truthy(get_airport_coordinates(StrV(Upper(Strip(value.v))))))
    IN  [i \in 1..Len(ok) |-> StrV(Upper(Strip(ok[i].v)))]

(* The distance of one row: the detected columns first, then any two       *)
(* airport codes of the row.                                               *)
RowDistance(df, source_row) ==
    LET method1 == IF Truthy(origin_column(df)) /\ Truthy(destination_column(df))
                   THEN calculate_airport_distance(
                            RowGet(source_row, origin_column(df)),
                            RowGet(source_row, destination_column(df)))
                   ELSE None
        airport_codes == AirportCodesOf(df, source_row)
    IN  IF ~Truthy(method1) /\ Len(airport_codes) >= 2
        THEN calculate_airport_distance(airport_codes[1], airport_codes[2])
        ELSE method1

(* The assignments to new_row that one item of the mapping makes, in       *)
(* order, as <<column, value>>; a Raise value is an exception raised       *)
(* there.                                                                  *)
FieldAssignments(field_name, mapping_config, df, source_row, provider_df, currency_df_, calc_method_, activity_cat_, activity_subcat_) ==
    LET source_column == Get(mapping_config, "source_column", None)
        consumption_type == Get(mapping_config, "consumption_type", StrV(<<>>))
        amount ==
            IF field_name = "ConsumptionAmount"
            THEN IF consumption_type.k # "str"
                 THEN <<<<field_name, Raise("AttributeError")>>>>
                 ELSE IF /\ Lower(consumption_type.v) = Lower(Distance)
                         /\ IsAirTravelRun(calc_method_, activity_cat_, activity_subcat_)
                 THEN <<<<field_name, OptFloat(RowDistance(df, source_row))>>>>
                 ELSE IF Truthy(source_column) /\ InColumns(source_column, df)
                 THEN <<<<field_name, OptFloat(source_row[source_column.v])>>>>
                 ELSE <<<<field_name, None>>>>
            ELSE IF field_name = "PaidAmount" /\ InColumns(source_column, df)
            THEN <<<<field_name, OptFloat(source_row[source_column.v])>>>>
            ELSE <<>>
        provider ==
            IF /\ field_name = "ActivityEmissionSourceProviderID"
               /\ InColumns(source_column, df)
            THEN <<<<field_name, OptInt(lookup_value(provider_df, "ProviderName",
                       source_row[source_column.v], "ActivityEmissionSourceProviderID"))>>>>
            ELSE <<>>
        currency ==
            IF field_name = "CurrencyID" /\ InColumns(source_column, df)
            THEN IF ~IsTable(currency_df_) THEN <<<<field_name, Raise("AttributeError")>>>>
                 ELSE <<<<field_name, OptInt(lookup_value(currency_df_, "CurrencyCode",
                            source_row[source_column.v], "CurrencyID"))>>>>
            ELSE <<>>
    IN  amount \o provider \o currency

RECURSIVE MappedAssignments(_, _, _, _, _, _, _, _)
MappedAssignments(m, df, source_row, provider_df, currency_df_, calc_method_, activity_cat_, activity_subcat_) ==
    IF m = <<>> THEN <<>>
    ELSE FieldAssignments(Head(m).key, Head(m).info, df, source_row, provider_df,
                          currency_df_, calc_method_, activity_cat_, activity_subcat_)
         \o MappedAssignments(Tail(m), df, source_row, provider_df, currency_df_,
                              calc_method_, activity_cat_, activity_subcat_)

(* new_row as the assignments make it: the columns in the order of their   *)
(* first assignment, the last value of each, and the first exception.      *)
RowFrom(assignments) ==
    LET stop == {i \in 1..Len(assignments) : IsRaise(assignments[i][2])}
        n == IF stop = {} THEN Len(assignments)
             ELSE (CHOOSE i \in stop : \A j \in stop : i <= j) - 1
        keys == [i \in 1..n |-> assignments[i][1]]
        last(c) == CHOOSE i \in 1..n : assignments[i][1] = c
                      /\ \A j \in 1..n : assignments[j][1] = c => j <= i
    IN  [exc |-> IF stop = {} THEN None ELSE assignments[n + 1][2],
         cols |-> SelectSeq([i \in 1..n |-> IF \E j \in 1..(i - 1) : keys[j] = keys[i]
                                            THEN "" ELSE keys[i]],
                            LAMBDA c : c # ""),
         vals |-> [c \in Range(keys) |-> assignments[last(c)][2]]]

---------------------------------------------------------------------------
(* The values that the strings of the model are made of *)

USD == <<"U", "S", "D">>
US == <<"U", "S">>
usd == <<"u", "s", "d">>
EUR == <<"E", "U", "R">>
Twelve == <<"1", "2">>
abc == <<"a", "b", "c">>

---------------------------------------------------------------------------
(* The inputs of the lookup specification: every table of at most         *)
(* MaxLkRows rows over the columns Code and ID, every column name of       *)
(* LkColumns (Nope is a column that no table has) and a null, a blank, a   *)
(* string or an integer as the value.                                      *)

LkCodes == {StrV(USD), StrV(usd), IntV(12), StrV(Twelve), NaN}
LkRows == {[c \in {"Code", "ID"} |-> IF c = "Code" THEN code ELSE id] :
              code \in LkCodes, id \in {IntV(1), IntV(2)}}
(* A column of integers and blanks alone is a float64 column and holds no  *)
(* integer: the tables are those whose Code column is not one.             *)
IsLkTable(rows) ==
    \/ \E i \in 1..Len(rows) : rows[i]["Code"].k = "str"
    \/ ~\E i \in 1..Len(rows) : rows[i]["Code"].k = "int"
    \/ ~\E i \in 1..Len(rows) : rows[i]["Code"].k = "NaN"
LkTables == {DataFrame(<<"Code", "ID">>, rows) :
                rows \in {r \in UNION {[1..n -> LkRows] : n \in 0..MaxLkRows} :
                             IsLkTable(r)}}
LkColumns == {"Code", "ID", "Nope"}

NoLookup == [called |-> FALSE, df |-> DataFrame(<<>>, <<>>), lookup_column |-> "",
             value |-> None, return_column |-> "", result |-> None]
LookupInputs ==
    {[called |-> FALSE, df |-> df, lookup_column |-> lc, value |-> value,
      return_column |-> rc, result |-> None] :
        df \in LkTables, lc \in LkColumns, rc \in LkColumns,
        value \in {None, NaN, StrV(USD), StrV(usd), StrV(EUR), IntV(12), IntV(1)}}

---------------------------------------------------------------------------
(* The inputs of the airport specification: as either code a null, an      *)
(* empty or blank string, a key of the airport table as it is, in lower    *)
(* case within blanks, a string that is no key, a number and a blank cell. *)

JFK == <<"J", "F", "K">>
LHR == <<"L", "H", "R">>
DEL == <<"D", "E", "L">>
AirportCodes ==
    {None, StrV(<<>>), StrV(<<" ", " ">>), StrV(JFK), StrV(LHR),
     StrV(<<" ", "j", "f", "k", " ">>), StrV(<<"l", "h", "r">>), StrV(abc),
     IntV(5), IntV(0), NaN}

NoAir == [called |-> FALSE, origin_code |-> None, destination_code |-> None,
          result |-> None]
NoVal == [sheet |-> <<>>, schema |-> None, df |-> DataFrame(<<>>, <<>>),
          issues |-> None]
AirportInputs ==
    {[called |-> FALSE, origin_code |-> o, destination_code |-> d, result |-> None] :
        o \in AirportCodes, d \in AirportCodes}

---------------------------------------------------------------------------
(* The destination tables of the model *)

Acme == <<"A", "c", "m", "e">>
Ac == <<"A", "c">>
Bolt == <<"B", "o", "l", "t">>
USA == <<"U", "S", "A">>
Peru == <<"P", "e", "r", "u">>
AirDistance == <<"A", "i", "r", " ">> \o Distance
AirCurrency == <<"A", "i", "r", " ">> \o Currency
Scope3 == <<"S", "c", "o", "p", "e", " ", "3">>

(* One row of a table: the cells in the order of the columns. *)
Row(cols, cells) == [c \in Range(cols) |-> cells[CHOOSE i \in 1..Len(cols) : cols[i] = c]]
Table(cols, rowsOfCells) ==
    DataFrame(cols, [i \in 1..Len(rowsOfCells) |-> Row(cols, rowsOfCells[i])])

FactCols == <<"EmissionActivityID", "CompanyID", "CountryID", "ActivityCategoryID",
              "ActivitySubcategoryID", "ScopeID", "ActivityEmissionSourceID", "UnitID",
              "EmissionFactorID", "DateKey", "ConsumptionAmount", "PaidAmount",
              "ActivityEmissionSourceProviderID", "CurrencyID">>

(* The row that a pre-seeded destination fact table holds. *)
SeedFactRow ==
    [c \in Range(FactCols) |->
        IF c = "EmissionActivityID" THEN IntV(7)
        ELSE IF c = "EmissionFactorID" THEN StrV(US \o <<"_">> \o AirDistance)
        ELSE IF c \in {"ConsumptionAmount", "PaidAmount"} THEN FloatV(9)
        ELSE IF c = "DateKey" THEN IntV(20230101)
        ELSE IntV(1)]

DestTables(factRows) ==
    [D_Country |-> Table(<<"CountryID", "CountryName", "ISO2Code", "created_at",
                           "updated_at">>,
                         <<<<IntV(1), StrV(USA), StrV(US), TsV(0), TsV(0)>>>>),
     D_Company |-> Table(<<"CompanyID", "CompanyName", "CountryID", "created_at",
                           "updated_at">>,
                         <<<<IntV(1), StrV(Acme), IntV(1), TsV(0), TsV(0)>>>>),
     D_Currency |-> Table(<<"CurrencyID", "CurrencyCode", "CurrencyName", "created_at",
                            "updated_at">>,
                          <<<<IntV(1), StrV(USD), StrV(USD), TsV(0), TsV(0)>>>>),
     DE1_ActivityEmissionSourceProvi |->
         Table(<<"ActivityEmissionSourceProviderID", "ProviderName">>,
               <<<<IntV(1), StrV(USD)>>>>),
     DE1_Unit |-> Table(<<"UnitID", "UnitName", "created_at", "updated_at">>,
                        <<<<IntV(1), StrV(USD), TsV(0), TsV(0)>>>>),
     DE1_ActivityCategory |->
         Table(<<"ActivityCategoryID", "ActivityCategory", "ScopeID">>,
               <<<<IntV(1), StrV(BusinessTravel), IntV(3)>>>>),
     DE1_ActivitySubcategory |->
         Table(<<"ActivitySubcategoryID", "ActivitySubcategoryName",
                 "ActivityCategoryID">>,
               <<<<IntV(1), StrV(AirTravel), IntV(1)>>>>),
     DE1_Scopes |-> Table(<<"ScopeID", "ScopeName">>, <<<<IntV(3), StrV(Scope3)>>>>),
     DE1_ActivityEmissionSource |->
         Table(<<"ActivityEmissionSourceID", "ActivityEmissionSourceName",
                 "ActivitySubcategoryID", "UnitID">>,
               <<<<IntV(1), StrV(AirDistance), IntV(1), IntV(1)>>,
                 <<IntV(2), StrV(AirCurrency), IntV(1), IntV(1)>>>>),
     FE1_EmissionActivityData |-> DataFrame(FactCols, factRows)]

(* The destination whose company, country, currency, provider and unit     *)
(* tables have no rows yet.                                                *)
NewDestTables ==
    [name \in DOMAIN DestTables(<<>>) |->
        IF name \in {"D_Company", "D_Country", "D_Currency",
                     "DE1_ActivityEmissionSourceProvi", "DE1_Unit"}
        THEN DataFrame(DestTables(<<>>)[name].cols, <<>>)
        ELSE DestTables(<<>>)[name]]

---------------------------------------------------------------------------
(* The source tables of the model: the columns Code (mapped to the         *)
(* currency, the unit and the provider), Amount and Date, and at most      *)
(* MaxRows rows.  A row is the plain row or differs from it in one cell.   *)

SourceCols == <<"Code", "Amount", "Date">>
PlainRow == Row(SourceCols, <<StrV(USD), IntV(5), DateV(2024, 1, 15)>>)
SourceRows ==
    {PlainRow}
    \cup {[PlainRow EXCEPT !["Code"] = c] : c \in {StrV(EUR), NaN}}
    \cup {[PlainRow EXCEPT !["Amount"] = c] : c \in {StrV(abc)}}
    \cup {[PlainRow EXCEPT !["Date"] = c] : c \in {DateV(2024, 5, 2), NaT}}
Sources == {DataFrame(SourceCols, rows) :
               rows \in UNION {[1..n -> SourceRows] : n \in 0..MaxRows}}

(* The source tables of the travel specification: the columns Origin and   *)
(* Destination hold keys of the airport table, Code, Amount and Date the   *)
(* plain cells; a table may have the further column Vendor, which holds a  *)
(* company name or a three-letter code.                                    *)
TravelCols == <<"Origin", "Destination">> \o SourceCols
TravelRows(cols) ==
    {[c \in Range(cols) |->
         IF c = "Origin" THEN o ELSE IF c = "Destination" THEN d
         ELSE IF c = "Vendor" THEN v ELSE PlainRow[c]] :
        o \in {StrV(JFK), StrV(LHR)}, d \in {StrV(JFK), StrV(LHR)},
        v \in {StrV(Acme), StrV(DEL)}}
(* The source tables without an airport column: no name of Hub, Via, Leg,  *)
(* Code, Amount, Date contains a pattern, and the cells of Hub, Via and    *)
(* Leg hold airport codes in either letter case, other strings of three    *)
(* characters, a company name or nothing.                                  *)
CodeCols == <<"Hub", "Via", "Leg">> \o SourceCols
CodeRows ==
    {[c \in Range(CodeCols) |->
         IF c = "Hub" THEN h ELSE IF c = "Via" THEN v
         ELSE IF c = "Leg" THEN s ELSE PlainRow[c]] :
        h \in {StrV(JFK), StrV(Lower(LHR)), StrV(abc)}, v \in {StrV(LHR), NaN},
        s \in {StrV(DEL), StrV(Acme)}}
TravelSources ==
    UNION {{DataFrame(cols, rows) :
               rows \in UNION {[1..n -> TravelRows(cols)] : n \in 0..MaxRows}} :
           cols \in {TravelCols, TravelCols \o <<"Vendor">>}}
    \cup {DataFrame(CodeCols, rows) :
               rows \in UNION {[1..n -> CodeRows] : n \in 0..MaxRows}}

---------------------------------------------------------------------------
(* The mappings of the model: the plain mapping, which maps every fact     *)
(* column to its source column, and the mappings that differ from it in    *)
(* one entry: an entry left out, an entry without a field, a field that is *)
(* None, a source_column that names no column of the source.               *)

Info(sc, ct) == [f \in {"source_column", "consumption_type"} |->
                    IF f = "source_column" THEN sc ELSE ct]
EmptyInfo == [f \in {} |-> None]

PlainMapping ==
    <<[key |-> "ConsumptionAmount", info |-> Info(ColV("Amount"), StrV(Fuel))],
      [key |-> "PaidAmount", info |-> Info(ColV("Amount"), None)],
      [key |-> "CurrencyID", info |-> Info(ColV("Code"), None)],
      [key |-> "UnitID", info |-> Info(ColV("Code"), None)],
      [key |-> "ActivityEmissionSourceProviderID", info |-> Info(ColV("Code"), None)],
      [key |-> "DateKey", info |-> Info(ColV("Date"), None)]>>

FactKeys == {PlainMapping[i].key : i \in 1..Len(PlainMapping)}

(* The entries that may stand for the plain entry of a key. *)
OtherInfos(key) ==
    IF key = "ConsumptionAmount"
    THEN {Info(ColV("Amount"), ct) : ct \in {StrV(Distance), StrV(Lower(Distance)),
                                             StrV(Currency), StrV(abc), None}}
         \cup {Info(None, StrV(Fuel)), Info(None, StrV(Currency)),
               Info(ColV("Nope"), StrV(Fuel)), [f \in {"source_column"} |-> ColV("Amount")]}
    ELSE {Info(None, None), Info(ColV("Nope"), None), EmptyInfo}
         \cup (IF key = "DateKey" THEN {Info(ColV("null"), None), Info(ColV("Code"), None)}
               ELSE {})

Without(m, key) == SelectSeq(m, LAMBDA e : e.key # key)
WithInfo(m, key, info) == [i \in 1..Len(m) |->
                              IF m[i].key = key THEN [key |-> key, info |-> info]
                              ELSE m[i]]

Mappings ==
    {PlainMapping}
    \cup {Without(PlainMapping, key) : key \in FactKeys}
    \cup UNION {{WithInfo(PlainMapping, key, info) : info \in OtherInfos(key)} :
                   key \in FactKeys}

---------------------------------------------------------------------------
(* progress_state.py *)

(* init_progress_state() *)
init_progress_state ==
    [current_table |-> <<>>, total_records |-> 0, processed_records |-> 0,
     status |-> ""]

(* update_progress(table_name, total, processed, status): an argument that *)
(* is None leaves its field alone.  Here None is the cell None.            *)
update_progress(p, table_name, total, processed, status) ==
    [current_table |-> IF table_name # None THEN table_name.v ELSE p.current_table,
     total_records |-> IF total # None THEN total.v ELSE p.total_records,
     processed_records |-> IF processed # None THEN processed.v
                           ELSE p.processed_records,
     status |-> IF status # None THEN status.v ELSE p.status]

---------------------------------------------------------------------------
(* transformer.py: transform_data, one action per statement; generate_fact *)
(* is the actions GenerateFact (up to the row loop), FactRow (one          *)
(* iteration) and FactComplete (after the loop).                           *)

NoDim == [kind |-> "", table |-> DataFrame(<<>>, <<>>),
          before |-> DataFrame(<<>>, <<>>), values |-> <<>>, prev |-> <<>>,
          calls |-> 0, exc |-> None]

Goto(next) == /\ pc' = next
              /\ now' = now + 1
              /\ UNCHANGED <<err, returned>>
Fail(at, exc) == /\ pc' = "error"
                 /\ err' = [at |-> at, exc |-> exc.v]
                 /\ now' = now + 1
                 /\ UNCHANGED returned

TransformCountry ==
    /\ pc = "country"
    /\ country_df' = transform_dimension(country, dest_tables.D_Country,
                                         "CountryName", "CountryID", now)
    /\ Goto("company")
    /\ UNCHANGED <<runInputs, company_df, date_df, currency_df,
                   activity_emmission_source_provider_df, unit_df, factLocals, lk, dim, air, val>>

TransformCompany ==
    /\ pc = "company"
    /\ company_df' = transform_dimension(company, dest_tables.D_Company,
                                         "CompanyName", "CompanyID", now)
    /\ Goto("relate")
    /\ UNCHANGED <<runInputs, country_df, date_df, currency_df,
                   activity_emmission_source_provider_df, unit_df, factLocals, lk, dim, air, val>>

(* relate_country_company writes into the table object it is given, the    *)
(* company table that transform_dimension returned: were that object the   *)
(* caller's, the caller's table would change with it.                      *)
RelateCountryCompany ==
    /\ pc = "relate"
    /\ LET written == relate_country_company(country, company, company_df, country_df, now)
           object == IF company_df = dest_tables.D_Company
                     THEN transform_dimension_object("D_Company")
                     ELSE OwnTable
       IN  /\ company_df' = written
           /\ dest_tables' = IF object = OwnTable THEN dest_tables
                              ELSE [dest_tables EXCEPT ![object] = written]
    /\ Goto("date")
    /\ UNCHANGED <<mappings, source_df, company, country, calc_method, activity_cat,
                   activity_subcat, ReportingYear, country_df, date_df, currency_df,
                   activity_emmission_source_provider_df, unit_df, factLocals, lk, dim, air, val>>

TransformDate ==
    /\ pc = "date"
    /\ LET r == transform_D_Date(mappings, source_df, ReportingYear, now)
       IN  IF IsRaise(r) THEN Fail("transform_D_Date", r) /\ UNCHANGED date_df
           ELSE date_df' = r /\ Goto("currency")
    /\ UNCHANGED <<runInputs, country_df, company_df, currency_df,
                   activity_emmission_source_provider_df, unit_df, factLocals, lk, dim, air, val>>

TransformCurrency ==
    /\ pc = "currency"
    /\ LET r == transform_D_Currency(mappings, source_df, dest_tables.D_Currency, now)
       IN  IF IsRaise(r) THEN Fail("transform_D_Currency", r) /\ UNCHANGED currency_df
           ELSE currency_df' = r /\ Goto("provider")
    /\ UNCHANGED <<runInputs, country_df, company_df, date_df,
                   activity_emmission_source_provider_df, unit_df, factLocals, lk, dim, air, val>>

TransformProvider ==
    /\ pc = "provider"
    /\ LET r == transform_emission_source_provider(mappings, source_df,
                    dest_tables.DE1_ActivityEmissionSourceProvi)
       IN  IF IsRaise(r)
           THEN /\ Fail("transform_emission_source_provider", r)
                /\ UNCHANGED activity_emmission_source_provider_df
           ELSE activity_emmission_source_provider_df' = r /\ Goto("unit")
    /\ UNCHANGED <<runInputs, country_df, company_df, date_df, currency_df, unit_df,
                   factLocals, lk, dim, air, val>>

TransformUnit ==
    /\ pc = "unit"
    /\ LET r == transform_unit(mappings, source_df, dest_tables.DE1_Unit, calc_method, now)
       IN  IF IsRaise(r) THEN Fail("transform_unit", r) /\ UNCHANGED unit_df
           ELSE unit_df' = r /\ Goto("fact")
    /\ UNCHANGED <<runInputs, country_df, company_df, date_df, currency_df,
                   activity_emmission_source_provider_df, factLocals, lk, dim, air, val>>

(* generate_fact up to the row loop: the empty result table, the first     *)
(* progress update, the emission ids, and the consumption_type read when   *)
(* the airport columns are not both detected.                              *)
GenerateFact ==
    /\ pc = "fact"
    /\ result_df' = create_empty_fact_table_structure(dest_tables.FE1_EmissionActivityData)
    /\ progress' = update_progress(progress,
                       StrV(activity_cat \o <<" ", "-", " ">> \o activity_subcat),
                       IntV(Len(source_df.rows)), IntV(0), StrV("Processing"))
    /\ index' = 0
    /\ LET ids == find_emission_ids(mappings, activity_subcat,
                      dest_tables.DE1_ActivitySubcategory,
                      dest_tables.DE1_ActivityEmissionSource, country_df, country,
                      calc_method)
           is_air_travel_consumption ==
               /\ IsAirTravelRun(calc_method, activity_cat, activity_subcat)
               /\ Truthy(origin_column(source_df))
               /\ Truthy(destination_column(source_df))
           consumption_type ==
               IF HasKey(mappings, "ConsumptionAmount")
               THEN Get(Item(mappings, "ConsumptionAmount"), "consumption_type", StrV(<<>>))
               ELSE StrV(<<>>)
       IN  IF IsRaise(ids)
           THEN Fail("find_emission_ids", ids) /\ UNCHANGED emission_ids
           ELSE IF ~is_air_travel_consumption /\ consumption_type.k # "str"
           THEN Fail("generate_fact", Raise("AttributeError")) /\ UNCHANGED emission_ids
           ELSE emission_ids' = ids /\ Goto("rows")
    /\ UNCHANGED <<runInputs, dimLocals, lk, dim, air, val>>

(* new_row with the unit taken from the Code cell of the row instead of    *)
(* the triple resolved before the loop.                                    *)
NewRowOf_unit_of_row(i) ==
    LET source_row == source_df.rows[i]
        date_column == IF HasKey(mappings, "DateKey")
                       THEN Get(Item(mappings, "DateKey"), "source_column", None)
                       ELSE None
    IN  RowFrom(
          <<<<"EmissionActivityID",
              ToInt(get_next_incremental_id(result_df, "EmissionActivityID"))>>,
            <<"CompanyID", OptInt(lookup_value(company_df, "CompanyName",
                               StrV(company), "CompanyID"))>>,
            <<"CountryID", OptInt(lookup_value(country_df, "CountryName",
                               StrV(country), "CountryID"))>>,
            <<"ActivityCategoryID",
              OptInt(lookup_value(dest_tables.DE1_ActivityCategory, "ActivityCategory",
                                  StrV(activity_cat), "ActivityCategoryID"))>>,
            <<"ActivitySubcategoryID",
              OptInt(lookup_value(dest_tables.DE1_ActivitySubcategory,
                                  "ActivitySubcategoryName", StrV(activity_subcat),
                                  "ActivitySubcategoryID"))>>,
            <<"ScopeID",
              OptInt(lookup_value(dest_tables.DE1_ActivityCategory, "ActivityCategory",
                                  StrV(activity_cat), "ScopeID"))>>,
            <<"ActivityEmissionSourceID", OptInt(emission_ids.emission_source_id)>>,
            <<"UnitID", source_row["Code"]>>,
            <<"EmissionFactorID", emission_ids.emission_factor_id>>,
            <<"DateKey", OptInt(get_date_key(date_df, date_column, ReportingYear,
                                             RowGet(source_row, date_column)))>>>>
          \o MappedAssignments(mappings, source_df, source_row,
                               activity_emmission_source_provider_df, currency_df,
                               calc_method, activity_cat, activity_subcat))

(* new_row of the loop body for source row number i (from 1) *)
NewRowOf(i) ==
    LET source_row == source_df.rows[i]
        date_column == IF HasKey(mappings, "DateKey")
                       THEN Get(Item(mappings, "DateKey"), "source_column", None)
                       ELSE None
    IN  RowFrom(
          <<<<"EmissionActivityID",
              ToInt(get_next_incremental_id(result_df, "EmissionActivityID"))>>,
            <<"CompanyID", OptInt(lookup_value(company_df, "CompanyName",
                               StrV(company), "CompanyID"))>>,
            <<"CountryID", OptInt(lookup_value(country_df, "CountryName",
                               StrV(country), "CountryID"))>>,
            <<"ActivityCategoryID",
              OptInt(lookup_value(dest_tables.DE1_ActivityCategory, "ActivityCategory",
                                  StrV(activity_cat), "ActivityCategoryID"))>>,
            <<"ActivitySubcategoryID",
              OptInt(lookup_value(dest_tables.DE1_ActivitySubcategory,
                                  "ActivitySubcategoryName", StrV(activity_subcat),
                                  "ActivitySubcategoryID"))>>,
            <<"ScopeID",
              OptInt(lookup_value(dest_tables.DE1_ActivityCategory, "ActivityCategory",
                                  StrV(activity_cat), "ScopeID"))>>,
            <<"ActivityEmissionSourceID", OptInt(emission_ids.emission_source_id)>>,
            <<"UnitID", OptInt(emission_ids.unit_id)>>,
            <<"EmissionFactorID", emission_ids.emission_factor_id>>,
            <<"DateKey", OptInt(get_date_key(date_df, date_column, ReportingYear,
                                             RowGet(source_row, date_column)))>>>>
          \o MappedAssignments(mappings, source_df, source_row,
                               activity_emmission_source_provider_df, currency_df,
                               calc_method, activity_cat, activity_subcat))

(* One iteration of the row loop of generate_fact. *)
FactRow ==
    /\ pc = "rows"
    /\ index < Len(source_df.rows)
    /\ LET new_row == NewRowOf(index + 1)
       IN  IF IsRaise(new_row.exc)
           THEN /\ Fail("generate_fact row", new_row.exc)
                /\ UNCHANGED <<result_df, index, progress>>
           ELSE /\ progress' = update_progress(progress, None, None, IntV(index + 1), None)
                /\ result_df' = Concat(result_df, new_row.cols, new_row.vals)
                /\ index' = index + 1
                /\ Goto("rows")
    /\ UNCHANGED <<runInputs, dimLocals, emission_ids, lk, dim, air, val>>

(* generate_fact after the loop. *)
FactComplete ==
    /\ pc = "rows"
    /\ index = Len(source_df.rows)
    /\ progress' = update_progress(progress, None, None, None, StrV("Complete"))
    /\ Goto("write")
    /\ UNCHANGED <<runInputs, dimLocals, result_df, emission_ids, index, lk, dim, air, val>>

(* The output tables of transform_data, in the order in which they are     *)
(* written.                                                                *)
Outputs ==
    [D_Company |-> company_df,
     D_Country |-> country_df,
     DE1_ActivityCategory |-> dest_tables.DE1_ActivityCategory,
     DE1_ActivitySubcategory |-> dest_tables.DE1_ActivitySubcategory,
     DE1_Scopes |-> dest_tables.DE1_Scopes,
     DE1_ActivityEmissionSource |-> dest_tables.DE1_ActivityEmissionSource,
     D_Date |-> date_df,
     DE1_Unit |-> unit_df,
     D_Currency |-> currency_df,
     DE1_ActivityEmissionSourceProvi |-> activity_emmission_source_provider_df,
     FE1_EmissionActivityData |-> result_df]

(* The to_excel calls and the return of transform_data: to_excel of a      *)
(* value that is None raises AttributeError.                               *)
WriteAndReturn ==
    /\ pc = "write"
    /\ IF \E name \in DOMAIN Outputs : ~IsTable(Outputs[name])
       THEN Fail("transform_data to_excel", Raise("AttributeError"))
       ELSE /\ pc' = "done"
            /\ returned' = Outputs
            /\ now' = now + 1
            /\ UNCHANGED err
    /\ UNCHANGED <<runInputs, dimLocals, factLocals, lk, dim, air, val>>

---------------------------------------------------------------------------
(* The run specification: one call of transform_data on every source       *)
(* table and calculation method of the model, with the plain inputs        *)
(* (PlainMapping, Acme, USA, an empty destination fact table) changed in   *)
(* one place: another mapping, another company and country, a pre-seeded   *)
(* destination fact table, or dimension tables without rows.               *)

NoRunLocals ==
    /\ country_df = None /\ company_df = None /\ date_df = None
    /\ currency_df = None /\ activity_emmission_source_provider_df = None
    /\ unit_df = None /\ result_df = None
    /\ emission_ids = NoIds /\ index = 0
    /\ progress = init_progress_state
    /\ err = None /\ returned = None /\ now = 1

Init ==
    /\ source_df \in Sources
    /\ calc_method \in {"Consumption-based", "Expense-based"}
    /\ activity_cat = BusinessTravel
    /\ activity_subcat = AirTravel
    /\ ReportingYear = 2024
    /\ \/ /\ mappings \in Mappings
          /\ company = Acme /\ country = USA
          /\ dest_tables = DestTables(<<>>)
       \/ /\ mappings = PlainMapping
          /\ company \in {Acme, Ac, Bolt}
          /\ country \in {USA, Lower(USA), Peru, US}
          /\ dest_tables = DestTables(<<>>)
       \/ /\ mappings = PlainMapping
          /\ company = Acme /\ country = USA
          /\ dest_tables \in {DestTables(<<SeedFactRow>>), NewDestTables}
    /\ NoRunLocals
    /\ pc = "country"
    /\ lk = NoLookup
    /\ dim = NoDim
    /\ air = NoAir
    /\ val = NoVal

Next ==
    \/ TransformCountry
    \/ TransformCompany
    \/ RelateCountryCompany
    \/ TransformDate
    \/ TransformCurrency
    \/ TransformProvider
    \/ TransformUnit
    \/ GenerateFact
    \/ FactRow
    \/ FactComplete
    \/ WriteAndReturn

Spec == Init /\ [][Next]_vars

(* The runs whose progress is followed to their end: every source table    *)
(* and calculation method with the plain inputs, the DateKey mapped or     *)
(* not (a source without rows gets past transform_D_Date only when it is   *)
(* not).  transform_data is sequential code, so a run that has neither     *)
(* returned nor raised takes its next step; every step of Next reads the   *)
(* clock, and RunStep is that step seen from the clock alone.              *)
InitProgress ==
    /\ source_df \in Sources
    /\ calc_method \in {"Consumption-based", "Expense-based"}
    /\ activity_cat = BusinessTravel
    /\ activity_subcat = AirTravel
    /\ ReportingYear = 2024
    /\ mappings \in {PlainMapping, WithInfo(PlainMapping, "DateKey", Info(None, None))}
    /\ company = Acme /\ country = USA
    /\ dest_tables = DestTables(<<>>)
    /\ NoRunLocals
    /\ pc = "country"
    /\ lk = NoLookup
    /\ dim = NoDim
    /\ air = NoAir
    /\ val = NoVal

RunStep == pc \notin {"done", "error"} /\ now' = now + 1

FairSpec == InitProgress /\ [][Next]_vars /\ WF_now(RunStep)

---------------------------------------------------------------------------
(* The travel specification: one Consumption-based run of transform_data   *)
(* for Business Travel / Air Travel on each of the TravelSources, with the *)
(* plain mapping whose ConsumptionAmount has consumption_type 'distance'.  *)

InitTravel ==
    /\ source_df \in TravelSources
    /\ calc_method = "Consumption-based"
    /\ activity_cat = BusinessTravel
    /\ activity_subcat = AirTravel
    /\ ReportingYear = 2024
    /\ mappings = WithInfo(PlainMapping, "ConsumptionAmount",
                           Info(ColV("Amount"), StrV(Lower(Distance))))
    /\ company = Acme /\ country = USA
    /\ dest_tables = DestTables(<<>>)
    /\ NoRunLocals
    /\ pc = "country"
    /\ lk = NoLookup
    /\ dim = NoDim
    /\ air = NoAir
    /\ val = NoVal

SpecTravel == InitTravel /\ [][Next]_vars

---------------------------------------------------------------------------
(* The lookup specification: one call of lookup_value on each of the       *)
(* LookupInputs; no run of transform_data takes place.                     *)

IdleRun ==
    /\ mappings = PlainMapping
    /\ dest_tables = DestTables(<<>>)
    /\ company = Acme /\ country = USA
    /\ activity_cat = BusinessTravel
    /\ activity_subcat = AirTravel
    /\ ReportingYear = 2024
    /\ NoRunLocals

LookupCall ==
    /\ pc = "lookup"
    /\ ~lk.called
    /\ lk' = [lk EXCEPT !.called = TRUE,
                        !.result = lookup_value(lk.df, lk.lookup_column, lk.value,
                                                lk.return_column)]
    /\ UNCHANGED <<runInputs, dimLocals, factLocals, control, dim, air, val>>

InitLookup ==
    /\ IdleRun
    /\ source_df = DataFrame(SourceCols, <<>>)
    /\ calc_method = "Consumption-based"
    /\ pc = "lookup"
    /\ lk \in LookupInputs
    /\ dim = NoDim
    /\ air = NoAir
    /\ val = NoVal

NextLookup == LookupCall

SpecLookup == InitLookup /\ [][NextLookup]_vars

---------------------------------------------------------------------------
(* The synchronizer specification: one dimension synchronizer is called up *)
(* to MaxCalls times, each call on the table that the call before it       *)
(* returned.  The company and country tables are synchronized by           *)
(* transform_dimension with one value per call; the currency, provider and *)
(* unit tables by their own functions with the column Code of the source   *)
(* table.  dim holds the table (table), the table that the last call was   *)
(* given (before), the values of the last call and of the call before it   *)
(* (values, prev), the number of calls, and the exception of a call that   *)
(* raised (exc).                                                           *)

DestName(kind) ==
    CASE kind = "company" -> "D_Company"
      [] kind = "country" -> "D_Country"
      [] kind = "currency" -> "D_Currency"
      [] kind = "provider" -> "DE1_ActivityEmissionSourceProvi"
      [] kind = "unit" -> "DE1_Unit"

(* The natural-key column and the ID column of each dimension table. *)
KeyColumn(kind) ==
    CASE kind = "company" -> "CompanyName"
      [] kind = "country" -> "CountryName"
      [] kind = "currency" -> "CurrencyCode"
      [] kind = "provider" -> "ProviderName"
      [] kind = "unit" -> "UnitName"
IdColumn(kind) ==
    CASE kind = "company" -> "CompanyID"
      [] kind = "country" -> "CountryID"
      [] kind = "currency" -> "CurrencyID"
      [] kind = "provider" -> "ActivityEmissionSourceProviderID"
      [] kind = "unit" -> "UnitID"

DimNames == {USD, US, EUR}

(* The destination table of a kind with `name` as the natural key of its   *)
(* row, and the same table without a row.                                  *)
Reseed(kind, name) ==
    LET df == DestTables(<<>>)[DestName(kind)]
    IN  DataFrame(df.cols, [i \in 1..Len(df.rows) |->
            [df.rows[i] EXCEPT ![KeyColumn(kind)] = StrV(name)]])
DimSeeds(kind) ==
    {Reseed(kind, USD), Reseed(kind, EUR),
     DataFrame(DestTables(<<>>)[DestName(kind)].cols, <<>>)}

DimSources ==
    {DataFrame(SourceCols, rows) :
        rows \in UNION {[1..n -> {[PlainRow EXCEPT !["Code"] = c] :
                                      c \in {StrV(name) : name \in DimNames} \cup {NaN}}] :
                           n \in 1..MaxRows}}

DimStart(kind, seed) ==
    [kind |-> kind, table |-> seed, before |-> seed, values |-> <<>>, prev |-> <<>>,
     calls |-> 0, exc |-> None]

(* One call of a synchronizer that got the values `values` and gave r. *)
DimCall(r, values) ==
    IF IsRaise(r)
    THEN dim' = [dim EXCEPT !.exc = r, !.calls = dim.calls + 1]
    ELSE dim' = [dim EXCEPT !.table = r, !.before = dim.table, !.values = values,
                            !.prev = dim.values, !.calls = dim.calls + 1]

DimReady(kinds) ==
    /\ pc = "dim"
    /\ dim.kind \in kinds
    /\ dim.exc = None
    /\ dim.calls < MaxCalls

(* transformer.py, lines 17 and 18 *)
UpsertDimension ==
    /\ DimReady({"company", "country"})
    /\ \E name \in DimNames :
          DimCall(transform_dimension(name, dim.table, KeyColumn(dim.kind),
                                      IdColumn(dim.kind), dim.calls + 1),
                  <<StrV(name)>>)
    /\ UNCHANGED <<runInputs, dimLocals, factLocals, control, lk, air, val>>

(* transformer.py, line 27 *)
UpsertCurrency ==
    /\ DimReady({"currency"})
    /\ DimCall(transform_D_Currency(mappings, source_df, dim.table, dim.calls + 1),
               Unique(Column(source_df, "Code")))
    /\ UNCHANGED <<runInputs, dimLocals, factLocals, control, lk, air, val>>

(* transformer.py, line 30 *)
UpsertProvider ==
    /\ DimReady({"provider"})
    /\ DimCall(transform_emission_source_provider(mappings, source_df, dim.table),
               Unique(DropNA(Column(source_df, "Code"))))
    /\ UNCHANGED <<runInputs, dimLocals, factLocals, control, lk, air, val>>

(* transformer.py, line 33 *)
UpsertUnit ==
    /\ DimReady({"unit"})
    /\ DimCall(transform_unit(mappings, source_df, dim.table, calc_method,
                              dim.calls + 1),
               [i \in 1..Len(Unique(DropNA(Column(source_df, "Code")))) |->
                   StrV(ToStr(Unique(DropNA(Column(source_df, "Code")))[i]))])
    /\ UNCHANGED <<runInputs, dimLocals, factLocals, control, lk, air, val>>

InitDim ==
    /\ IdleRun
    /\ calc_method = "Consumption-based"
    /\ pc = "dim"
    /\ lk = NoLookup
    /\ air = NoAir
    /\ val = NoVal
    /\ \/ /\ source_df = DataFrame(SourceCols, <<>>)
          /\ \E kind \in {"company", "country"} :
                dim \in {DimStart(kind, seed) : seed \in DimSeeds(kind)}
       \/ /\ source_df \in DimSources
          /\ \E kind \in {"currency", "provider", "unit"} :
                dim \in {DimStart(kind, seed) : seed \in DimSeeds(kind)}

NextDim ==
    \/ UpsertDimension
    \/ UpsertCurrency
    \/ UpsertProvider
    \/ UpsertUnit

SpecDim == InitDim /\ [][NextDim]_vars

---------------------------------------------------------------------------
(* The resolver specification: one call of find_emission_ids, as           *)
(* generate_fact makes it, for each mapping of IdMappings, each            *)
(* calculation method and each emission-source table of at most MaxRows    *)
(* rows with distinct IDs from 0; a row belongs to the run's subcategory   *)
(* (ID 1) or to another, and is named Air Distance or Air Currency.        *)

EmissionSourceRows ==
    {Row(DestTables(<<>>).DE1_ActivityEmissionSource.cols,
         <<IntV(id), StrV(name), IntV(sub), IntV(unit)>>) :
        id \in 0..2, name \in {AirDistance, AirCurrency}, sub \in 1..2, unit \in 1..2}
EmissionSourceTables ==
    {DataFrame(DestTables(<<>>).DE1_ActivityEmissionSource.cols, rows) :
        rows \in {r \in UNION {[1..n -> EmissionSourceRows] : n \in 0..MaxRows} :
                     \A i, j \in 1..Len(r) :
                         i # j => r[i]["ActivityEmissionSourceID"]
                                     # r[j]["ActivityEmissionSourceID"]}}
IdMappings ==
    {Without(PlainMapping, "ConsumptionAmount")}
    \cup {WithInfo(PlainMapping, "ConsumptionAmount", Info(ColV("Amount"), ct)) :
             ct \in {StrV(Distance), StrV(Lower(Distance)), StrV(Currency), StrV(Fuel),
                     None}}

(* fact.py, lines 175 to 178 *)
FindEmissionIds ==
    /\ pc = "ids"
    /\ LET ids == find_emission_ids(mappings, activity_subcat,
                      dest_tables.DE1_ActivitySubcategory,
                      dest_tables.DE1_ActivityEmissionSource, dest_tables.D_Country,
                      country, calc_method)
       IN  IF IsRaise(ids)
           THEN Fail("find_emission_ids", ids) /\ UNCHANGED emission_ids
           ELSE emission_ids' = ids /\ Goto("resolved")
    /\ UNCHANGED <<runInputs, dimLocals, result_df, index, progress, lk, dim, air, val>>

InitIds ==
    /\ source_df = DataFrame(SourceCols, <<>>)
    /\ calc_method \in {"Consumption-based", "Expense-based"}
    /\ activity_cat = BusinessTravel
    /\ activity_subcat = AirTravel
    /\ ReportingYear = 2024
    /\ mappings \in IdMappings
    /\ company = Acme /\ country = USA
    /\ dest_tables \in {[DestTables(<<>>) EXCEPT !.DE1_ActivityEmissionSource = t] :
                            t \in EmissionSourceTables}
    /\ NoRunLocals
    /\ pc = "ids"
    /\ lk = NoLookup
    /\ dim = NoDim
    /\ air = NoAir
    /\ val = NoVal

NextIds == FindEmissionIds

SpecIds == InitIds /\ [][NextIds]_vars

---------------------------------------------------------------------------
(* The airport specification: one call of calculate_airport_distance on    *)
(* each of the AirportInputs.                                              *)

AirportCall ==
    /\ pc = "airport"
    /\ ~air.called
    /\ air' = [air EXCEPT !.called = TRUE,
                          !.result = calculate_airport_distance(air.origin_code,
                                                                air.destination_code)]
    /\ UNCHANGED <<runInputs, dimLocals, factLocals, control, lk, dim, val>>

InitAirport ==
    /\ IdleRun
    /\ source_df = DataFrame(SourceCols, <<>>)
    /\ calc_method = "Consumption-based"
    /\ pc = "airport"
    /\ lk = NoLookup
    /\ dim = NoDim
    /\ air \in AirportInputs
    /\ val = NoVal

NextAirport == AirportCall

SpecAirport == InitAirport /\ [][NextAirport]_vars

---------------------------------------------------------------------------
(* The specification of successive runs: the caller calls transform_data   *)
(* again, with another company and country, on the destination tables it   *)
(* holds after the run before.                                             *)

MaxRuns == 2        \* runs of transform_data on the same destination tables
(* The clock ticks of a run that returns: one for each step of             *)
(* transform_data and of generate_fact, and one for each source row.       *)
RunTicks(df) == Len(df.rows) + 11

NextRun ==
    /\ pc = "done"
    /\ now <= (MaxRuns - 1) * RunTicks(source_df)
    /\ company' \in {Acme, Bolt}
    /\ country' \in {USA, Peru}
    /\ pc' = "country"
    /\ now' = now + 1
    /\ country_df' = None /\ company_df' = None /\ date_df' = None
    /\ currency_df' = None /\ activity_emmission_source_provider_df' = None
    /\ unit_df' = None /\ result_df' = None
    /\ emission_ids' = NoIds /\ index' = 0
    /\ progress' = init_progress_state
    /\ UNCHANGED <<mappings, source_df, dest_tables, calc_method, activity_cat,
                   activity_subcat, ReportingYear, err, returned, lk, dim, air, val>>

InitRuns ==
    /\ source_df \in {DataFrame(SourceCols, <<row>>) :
                         row \in {PlainRow, [PlainRow EXCEPT !["Code"] = StrV(EUR)]}}
    /\ calc_method \in {"Consumption-based", "Expense-based"}
    /\ activity_cat = BusinessTravel
    /\ activity_subcat = AirTravel
    /\ ReportingYear = 2024
    /\ mappings = PlainMapping
    /\ company \in {Acme, Bolt}
    /\ country \in {USA, Peru}
    /\ dest_tables = DestTables(<<>>)
    /\ NoRunLocals
    /\ pc = "country"
    /\ lk = NoLookup
    /\ dim = NoDim
    /\ air = NoAir
    /\ val = NoVal

NextRuns == Next \/ NextRun

SpecRuns == InitRuns /\ [][NextRuns]_vars

---------------------------------------------------------------------------
(* file_loader.py and validator.py: the destination schema and the         *)
(* duplicate check of the validator                                        *)

MaxValRows == 2     \* rows of a table handed to the validator

(* load_destination_schema: the schema of each table named in the sheet:   *)
(* its columns and datatypes in sheet order, and as primary_key the first  *)
(* column whose IsPrimaryKey cell is 'YES' in any letter case, or null.    *)
load_destination_schema(sheet) ==
    [table \in {sheet.rows[i]["TableName"] : i \in 1..Len(sheet.rows)} |->
        LET group == SelectSeq(Indices(sheet),
                         LAMBDA i : sheet.rows[i]["TableName"] = table)
            pk_rows == SelectSeq(group, LAMBDA i :
                           Upper(ToStr(sheet.rows[i]["IsPrimaryKey"])) = <<"Y", "E", "S">>)
        IN  [columns |-> [i \in 1..Len(group) |-> sheet.rows[group[i]]["ColumnName"].v],
             datatypes |-> [i \in 1..Len(group) |-> sheet.rows[group[i]]["DataType"]],
             primary_key |-> IF pk_rows # <<>>
                             THEN sheet.rows[pk_rows[1]]["ColumnName"]
                             ELSE None]]

(* df.duplicated(subset=[column], keep=False): the rows whose cell in the  *)
(* column is also the cell of another row.                                 *)
Duplicated(df, column) ==
    SelectSeq(Indices(df), LAMBDA i :
        \E j \in 1..Len(df.rows) : j # i /\ df.rows[j][column] = df.rows[i][column])

(* check_duplicates(df, table_schema): the issues as records.  The column  *)
(* tested is table_schema['columns'][0].                                   *)
check_duplicates(df, table_schema) ==
    LET pk_column == table_schema.columns[1]
    IN  IF pk_column \in Range(df.cols)
        THEN LET duplicates == Duplicated(df, pk_column)
             IN  IF duplicates # <<>>
                 THEN <<[issue |-> "Found duplicate records for primary key column",
                         column |-> pk_column, count |-> Len(duplicates),
                         values |-> <<>>],
                        [issue |-> "Duplicate values", column |-> pk_column,
                         count |-> Len(duplicates),
                         values |-> Unique([i \in 1..Len(duplicates) |->
                                               df.rows[duplicates[i]][pk_column]])]>>
                 ELSE <<>>
        ELSE <<[issue |-> "Primary key column is missing from the data",
                column |-> pk_column, count |-> 0, values |-> <<>>]>>

(* The schema sheets of the model: the one table D_Company with the        *)
(* columns CompanyID and CompanyName in either order, each flagged as      *)
(* primary key or not.                                                     *)
ValCols == <<"CompanyID", "CompanyName">>
PkFlags == {StrV(<<"Y", "E", "S">>), StrV(<<"y", "e", "s">>), StrV(<<"N", "o">>)}
SchemaSheets ==
    {Table(<<"TableName", "ColumnName", "DataType", "IsPrimaryKey">>,
           <<<<"D_Company", ColV(order[1]), StrV(<<"i", "n", "t">>), f1>>,
             <<"D_Company", ColV(order[2]), StrV(<<"i", "n", "t">>), f2>>>>) :
        order \in {ValCols, <<"CompanyName", "CompanyID">>}, f1 \in PkFlags, f2 \in PkFlags}

(* The tables handed to the validator. *)
ValTables ==
    {DataFrame(ValCols, rows) :
        rows \in UNION {[1..n -> {Row(ValCols, <<IntV(id), StrV(name)>>) :
                                     id \in 1..2, name \in {Acme, Bolt}}] :
                        n \in 0..MaxValRows}}

(* app flow: the schema is loaded first *)
LoadDestinationSchema ==
    /\ pc = "schema"
    /\ val' = [val EXCEPT !.schema = load_destination_schema(val.sheet)]
    /\ pc' = "validate"
    /\ UNCHANGED <<runInputs, dimLocals, factLocals, err, returned, now, lk, dim, air>>

(* validate_transformed_data for the one table: its duplicate issues *)
ValidateTable ==
    /\ pc = "validate"
    /\ val' = [val EXCEPT !.issues = check_duplicates(val.df, val.schema["D_Company"])]
    /\ pc' = "validated"
    /\ UNCHANGED <<runInputs, dimLocals, factLocals, err, returned, now, lk, dim, air>>

InitValidator ==
    /\ IdleRun
    /\ source_df = DataFrame(SourceCols, <<>>)
    /\ calc_method = "Consumption-based"
    /\ pc = "schema"
    /\ lk = NoLookup
    /\ dim = NoDim
    /\ air = NoAir
    /\ val \in {[sheet |-> sheet, schema |-> None, df |-> df, issues |-> None] :
                   sheet \in SchemaSheets, df \in ValTables}

NextValidator == LoadDestinationSchema \/ ValidateTable

SpecValidator == InitValidator /\ [][NextValidator]_vars

---------------------------------------------------------------------------
(* Properties of the run specification *)

(* generate_fact has built its result table (possibly not all of it yet) *)
InFact == pc \in {"rows", "write", "done"}
(* generate_fact has returned *)
FactReturned == pc \in {"write", "done"}

(* C1: in every run of generate_fact the EmissionActivityID of the k-th    *)
(* row of the result table is k, at every point of the row loop, and the   *)
(* table that generate_fact returns for n source rows holds the IDs        *)
(* 1, ..., n, in source-row order.                                         *)
C1_EmissionActivityIdsAreSequential ==
    /\ IsTable(result_df) =>
          \A k \in 1..Len(result_df.rows) :
              result_df.rows[k]["EmissionActivityID"] = IntV(k)
    /\ FactReturned =>
          [k \in 1..Len(result_df.rows) |-> result_df.rows[k]["EmissionActivityID"].v]
              = [k \in 1..Len(source_df.rows) |-> k]

C1_Witness ==
    /\ pc = "done"
    /\ Len(source_df.rows) >= 2
    /\ returned.FE1_EmissionActivityData.rows[2]["EmissionActivityID"] = IntV(2)

(* C2: the table that generate_fact returns has exactly one row per source *)
(* row, the i-th one derived from the i-th source row (its PaidAmount is   *)
(* the Amount of that row when the mapping maps it so), and none of its    *)
(* rows is a row of the destination fact table, pre-seeded or not.         *)
C2_OneRowPerSourceRow ==
    /\ InFact => Len(result_df.rows) = index
    /\ FactReturned =>
          /\ Len(result_df.rows) = Len(source_df.rows)
          /\ \A i \in 1..Len(result_df.rows) :
                /\ result_df.rows[i] \notin Range(dest_tables.FE1_EmissionActivityData.rows)
                /\ (HasKey(mappings, "PaidAmount")
                    /\ Item(mappings, "PaidAmount") = Info(ColV("Amount"), None))
                   => result_df.rows[i]["PaidAmount"]
                          = ToFloat(source_df.rows[i]["Amount"])

C2_Witness ==
    /\ pc = "done"
    /\ Len(dest_tables.FE1_EmissionActivityData.rows) > 0
    /\ Len(source_df.rows) >= 2
    /\ Len(returned.FE1_EmissionActivityData.rows) = Len(source_df.rows)

(* The source table has a row and its cells are usable: every Code is a    *)
(* string, every Amount a number and every Date a date.                    *)
UsableCells(df) ==
    /\ Len(df.rows) > 0
    /\ \A i \in 1..Len(df.rows) :
          /\ df.rows[i]["Code"].k = "str"
          /\ df.rows[i]["Amount"].k \in {"int", "float"}
          /\ df.rows[i]["Date"].k = "date"

(* Every fact column has an entry with both fields (either may be null). *)
EntryForEachFactColumn(m) ==
    \A key \in FactKeys :
        HasKey(m, key) /\ DOMAIN Item(m, key) = {"source_column", "consumption_type"}

(* The source_column of the entry is null or names a column that is not in *)
(* the source table.                                                       *)
NullOrMissingColumn(m, key, df) ==
    Item(m, key)["source_column"] = None \/ ~InColumns(Item(m, key)["source_column"], df)

(* C3: a run of transform_data whose mapping has an entry for each fact    *)
(* column never stops with an exception, and when it is done it has        *)
(* returned eleven tables, none of them null; this for the mappings in     *)
(* which the source_column of the CurrencyID, UnitID,                      *)
(* ActivityEmissionSourceProviderID or DateKey entry is null or names a    *)
(* missing column, the rest of the mapping and the cells of the source     *)
(* being usable.                                                           *)
C3_RunYieldsAllTables ==
    (/\ EntryForEachFactColumn(mappings)
     /\ UsableCells(source_df)
     /\ \A key \in {"ConsumptionAmount", "PaidAmount"} :
           Item(mappings, key) = Item(PlainMapping, key)
     /\ \A key \in {"CurrencyID", "UnitID", "ActivityEmissionSourceProviderID", "DateKey"} :
           \/ Item(mappings, key) = Item(PlainMapping, key)
           \/ NullOrMissingColumn(mappings, key, source_df))
    => /\ pc # "error"
       /\ pc = "done" => /\ Cardinality(DOMAIN returned) = 11
                         /\ \A name \in DOMAIN returned : IsTable(returned[name])

(* The cell cannot be cast to a number by float(). *)
Uncastable(c) == IsRaise(ToFloat(c))

(* C4: in a run with the plain mapping the row loop of generate_fact never *)
(* stops with an exception, and the row of a source row whose Amount       *)
(* cannot be cast to a number, or whose Code has no match in the provider  *)
(* or the currency table, is appended with a null in that cell.            *)
C4_UnusableFieldGivesNull ==
    mappings = PlainMapping =>
        /\ ~(pc = "error" /\ err.at = "generate_fact row")
        /\ IsTable(result_df) =>
              \A i \in 1..Len(result_df.rows) :
                  /\ Uncastable(source_df.rows[i]["Amount"])
                         => /\ result_df.rows[i]["PaidAmount"] = None
                            /\ result_df.rows[i]["ConsumptionAmount"] = None
                  /\ lookup_value(currency_df, "CurrencyCode",
                                  source_df.rows[i]["Code"], "CurrencyID") = None
                         => result_df.rows[i]["CurrencyID"] = None
                  /\ lookup_value(activity_emmission_source_provider_df, "ProviderName",
                                  source_df.rows[i]["Code"],
                                  "ActivityEmissionSourceProviderID") = None
                         => result_df.rows[i]["ActivityEmissionSourceProviderID"] = None

(* The lookups of C4 that find no match do give a null and the row stays. *)
C4_LookupFailureWitness ==
    /\ pc = "done"
    /\ \E i \in 1..Len(result_df.rows) :
          /\ source_df.rows[i]["Code"] = StrV(EUR)
          /\ result_df.rows[i]["CurrencyID"] = None

(* No entry of the mapping whose key contains ConsumptionAmount has a      *)
(* consumption_type that the calculation method admits.                    *)
NoAdmissibleType(m, calc_method_) ==
    \A i \in 1..Len(m) :
        AmountKeyIn(m[i].key) =>
            LET ct == Get(m[i].info, "consumption_type", None)
            IN  \/ ct.k # "str"
                \/ Lower(ct.v) \notin
                      {Lower(x) : x \in valid_transformations(calc_method_)}

(* C5: when no ConsumptionAmount entry has an admissible consumption_type  *)
(* (the entry absent, the consumption_type missing, null or not            *)
(* admissible), neither find_emission_ids nor generate_fact before its row *)
(* loop raises, the ids are the null triple, and every fact row has null   *)
(* in ActivityEmissionSourceID, UnitID and EmissionFactorID.               *)
C5_NoEmissionTypeGivesNullIds ==
    NoAdmissibleType(mappings, calc_method) =>
        /\ ~(pc = "error" /\ err.at \in {"find_emission_ids", "generate_fact"})
        /\ InFact =>
              /\ emission_ids = NoIds
              /\ \A i \in 1..Len(result_df.rows) :
                    \A c \in {"ActivityEmissionSourceID", "UnitID", "EmissionFactorID"} :
                        result_df.rows[i][c] = None

(* The null triple is what an absent entry or an inadmissible type gives. *)
C5_NullTripleWitness ==
    /\ pc = "done"
    /\ NoAdmissibleType(mappings, calc_method)
    /\ Len(result_df.rows) > 0
    /\ result_df.rows[1]["EmissionFactorID"] = None

(* transform_D_Date has returned its table *)
DateReturned == IsTable(date_df)

(* The DateKey that transform_D_Date derives from a cell of the date       *)
(* column: YYYYMMDD, and NaN for a blank.                                  *)
DateKeyOf(c) == IF c = NaT THEN NaN ELSE StrV(StrfYmd(c.v[1], c.v[2], c.v[3]))

(* the table without its two timestamp columns *)
WithoutTimestamps(df) ==
    [i \in 1..Len(df.rows) |->
        [c \in Range(df.cols) \ {"created_at", "updated_at"} |-> df.rows[i][c]]]

(* C8: when the DateKey entry names a column of the source table, the      *)
(* table of transform_D_Date has one row per distinct DateKey of the       *)
(* source, no DateKey twice, in the order in which the DateKeys first      *)
(* occur, each row being the one derived from the first source row with    *)
(* that DateKey.                                                           *)
C8_OneDateRowPerDateKey ==
    (/\ DateReturned
     /\ HasKey(mappings, "DateKey")
     /\ InColumns(Get(Item(mappings, "DateKey"), "source_column", None), source_df))
    => LET date_col == Column(source_df, Item(mappings, "DateKey")["source_column"].v)
           keys == [i \in 1..Len(date_col) |-> DateKeyOf(date_col[i])]
           first == {i \in 1..Len(keys) : \A h \in 1..(i - 1) : keys[h] # keys[i]}
           anyNaT == \E i \in 1..Len(date_col) : date_col[i] = NaT
       IN  /\ Len(date_df.rows) = Cardinality(Range(keys))
           /\ \A a, b \in 1..Len(date_df.rows) :
                 a # b => date_df.rows[a]["DateKey"] # date_df.rows[b]["DateKey"]
           /\ \A a \in 1..Len(date_df.rows) :
                 \E i \in first :
                     /\ Cardinality({h \in first : h <= i}) = a
                     /\ date_df.rows[a]["DateKey"] = keys[i]
                     /\ WithoutTimestamps(DataFrame(DateCols, <<date_df.rows[a]>>))
                        = WithoutTimestamps(DataFrame(DateCols,
                              <<DateRowOf(date_col[i], anyNaT, 0)>>))

C8_Witness ==
    /\ DateReturned
    /\ mappings = PlainMapping
    /\ Len(source_df.rows) >= 2
    /\ source_df.rows[1]["Date"] = source_df.rows[2]["Date"]
    /\ Len(date_df.rows) < Len(source_df.rows)

(* No source date column is mapped: there is no DateKey entry, or its      *)
(* source_column is null, or it names a column that the source lacks.      *)
NoDateColumnMapped(m, df) ==
    \/ ~HasKey(m, "DateKey")
    \/ Get(Item(m, "DateKey"), "source_column", None) = None
    \/ ~InColumns(Get(Item(m, "DateKey"), "source_column", None), df)

(* C9: when no source date column is mapped, transform_D_Date does not     *)
(* raise and returns exactly one row: DateKey {year}0101, StartDate        *)
(* 01-01-{year}, EndDate 31-12-{year}, Year the reporting year, Quarter =  *)
(* Month = Day = 1.                                                        *)
C9_YearRowWhenNoDateColumn ==
    NoDateColumnMapped(mappings, source_df) =>
        /\ ~(pc = "error" /\ err.at = "transform_D_Date")
        /\ DateReturned =>
              /\ Len(date_df.rows) = 1
              /\ date_df.rows[1]["DateKey"]
                     = StrV(Digits(ReportingYear) \o <<"0", "1", "0", "1">>)
              /\ date_df.rows[1]["StartDate"]
                     = StrV(<<"0", "1", "-", "0", "1", "-">> \o Digits(ReportingYear))
              /\ date_df.rows[1]["EndDate"]
                     = StrV(<<"3", "1", "-", "1", "2", "-">> \o Digits(ReportingYear))
              /\ date_df.rows[1]["Year"] = IntV(ReportingYear)
              /\ \A c \in {"Quarter", "Month", "Day"} : date_df.rows[1][c] = IntV(1)

(* The year row is what a null or missing source column gives. *)
C9_YearRowWitness ==
    /\ DateReturned
    /\ HasKey(mappings, "DateKey")
    /\ NoDateColumnMapped(mappings, source_df)
    /\ Len(date_df.rows) = 1
    /\ date_df.rows[1]["Year"] = IntV(ReportingYear)

---------------------------------------------------------------------------
(* Properties of the synchronizer specification *)

(* C6: a synchronizer applied to its own output with the values of the     *)
(* call before adds no row: the table equals the one it was given,         *)
(* timestamps aside.                                                       *)
C6_UpsertIsIdempotent ==
    (dim.calls >= 2 /\ dim.exc = None /\ dim.values = dim.prev)
    => /\ Len(dim.table.rows) = Len(dim.before.rows)
       /\ WithoutTimestamps(dim.table) = WithoutTimestamps(dim.before)

(* transform_dimension, transform_unit and                                 *)
(* transform_emission_source_provider do add a row first and none the      *)
(* second time.                                                            *)
C6_SecondCallWitness ==
    /\ dim.calls = 2 /\ dim.exc = None /\ dim.values = dim.prev
    /\ dim.kind \in {"company", "unit", "provider"}
    /\ Len(dim.table.rows) = 2
    /\ dim.table = dim.before

(* The i-th value of the last call is a substring of the natural key of a  *)
(* row that the table had before the call, or of a value that the call     *)
(* took before it.                                                         *)
AlreadyPresent(i) ==
    \/ \E r \in 1..Len(dim.before.rows) :
          /\ dim.before.rows[r][KeyColumn(dim.kind)].k = "str"
          /\ StrContains(dim.before.rows[r][KeyColumn(dim.kind)].v, dim.values[i].v)
    \/ \E j \in 1..(i - 1) : StrContains(dim.values[j].v, dim.values[i].v)

(* C7: a call of a synchronizer appends no row for a value that is a       *)
(* substring of the natural key of a row already in the table or appended  *)
(* earlier in the call: it appends at most one row per value that is not.  *)
C7_SubstringIsAlreadyPresent ==
    (dim.calls >= 1 /\ dim.exc = None)
    => Len(dim.table.rows) - Len(dim.before.rows)
           <= Cardinality({i \in 1..Len(dim.values) : ~AlreadyPresent(i)})

(* USD and then US in one call of transform_unit on a table without them:  *)
(* one row is appended.                                                    *)
C7_UnitWitness ==
    /\ dim.kind = "unit" /\ dim.calls = 1 /\ dim.exc = None
    /\ dim.values = <<StrV(USD), StrV(US)>>
    /\ Len(dim.before.rows) = 0
    /\ Len(dim.table.rows) = 1

---------------------------------------------------------------------------
(* Properties of the lookup specification *)

(* Row i of the table matches the value: both converted to strings and     *)
(* lower-cased are equal.                                                  *)
Matches(df, lookup_column, value, i) ==
    Lower(ToStr(df.rows[i][lookup_column])) = Lower(ToStr(value))

(* C10: for columns that the table has, lookup_value returns the           *)
(* return_column cell of the first row, in table order, whose              *)
(* lookup_column cell equals the value as lower-cased strings, and null    *)
(* when no row matches; it returns null when the table is empty or the     *)
(* value is null.                                                          *)
C10_LookupFirstMatchIgnoringCase ==
    lk.called =>
        /\ (Empty(lk.df) \/ lk.value = None) => lk.result = None
        /\ (/\ ~Empty(lk.df) /\ lk.value # None
            /\ lk.lookup_column \in Range(lk.df.cols)
            /\ lk.return_column \in Range(lk.df.cols))
           => LET hits == {i \in 1..Len(lk.df.rows) :
                              Matches(lk.df, lk.lookup_column, lk.value, i)}
              IN  /\ hits = {} => lk.result = None
                  /\ hits # {} =>
                        \E i \in hits :
                            /\ \A h \in hits : i <= h
                            /\ lk.result = lk.df.rows[i][lk.return_column]

C10_Witness ==
    /\ lk.called
    /\ lk.value = StrV(usd)
    /\ lk.lookup_column = "Code" /\ lk.return_column = "ID"
    /\ Len(lk.df.rows) = 2
    /\ lk.df.rows[1] = [c \in {"Code", "ID"} |-> IF c = "Code" THEN StrV(USD) ELSE IntV(2)]
    /\ lk.df.rows[2] = [c \in {"Code", "ID"} |-> IF c = "Code" THEN StrV(usd) ELSE IntV(1)]
    /\ lk.result = IntV(2)

(* C11: a call of lookup_value with a return_column that the table does    *)
(* not have fails with an error and does not return null, whatever the     *)
(* rows of the table and the value are.                                    *)
C11_MissingReturnColumnRaises ==
    (lk.called /\ lk.return_column \notin Range(lk.df.cols)) => IsRaise(lk.result)

(* The call that does raise: a table with rows and a value that is not     *)
(* null.                                                                   *)
C11_KeyErrorWitness ==
    /\ lk.called
    /\ lk.return_column = "Nope" /\ lk.lookup_column = "Code"
    /\ Len(lk.df.rows) = 1 /\ lk.value = StrV(USD)
    /\ lk.result = Raise("KeyError")

---------------------------------------------------------------------------
(* Properties of the airport specification *)

(* The code is a string that, trimmed and upper-cased, is a key of the     *)
(* airport table.                                                          *)
IsAirportKey(code) ==
    code.k = "str" /\ Upper(Strip(code.v)) \in AIRPORT_COORDINATES

(* C12: calculate_airport_distance returns null exactly when either input  *)
(* is empty or either code, trimmed and upper-cased, is not a key of the   *)
(* airport table; otherwise it returns a distance that is not null, 0.0    *)
(* when the two normalized codes are the same; it never raises.            *)
C12_DistanceNullExactlyWhenUnknown ==
    air.called =>
        LET unknown == \/ ~Truthy(air.origin_code) \/ ~Truthy(air.destination_code)
                       \/ ~IsAirportKey(air.origin_code)
                       \/ ~IsAirportKey(air.destination_code)
        IN  /\ ~IsRaise(air.result)
            /\ (air.result = None) <=> unknown
            /\ ~unknown => air.result.k \in {"float", "km"}
            /\ (~unknown /\ Upper(Strip(air.origin_code.v))
                               = Upper(Strip(air.destination_code.v)))
               => air.result = FloatV(0)

C12_Witness ==
    /\ air.called
    /\ air.origin_code = StrV(<<" ", "j", "f", "k", " ">>)
    /\ air.destination_code = StrV(LHR)
    /\ air.result = [k |-> "km", v |-> {JFK, LHR}]

---------------------------------------------------------------------------
(* Properties of the amounts and the keys of the fact rows *)

(* The mapping gives the fact column no source column: it has no entry     *)
(* for it, or the source_column of the entry is missing or null.           *)
NoSourceColumn(m, key) ==
    HasKey(m, key) => Get(Item(m, key), "source_column", None) = None

(* C13: in an Expense-based run whose mapping maps PaidAmount to a column  *)
(* of the source and gives ConsumptionAmount no source column, every fact  *)
(* row has a null ConsumptionAmount and as PaidAmount the numeric cast of  *)
(* the cell of its source row in the mapped column.                        *)
C13_ExpenseRunPaidAmountOnly ==
    (/\ InFact
     /\ calc_method = "Expense-based"
     /\ HasKey(mappings, "PaidAmount")
     /\ InColumns(Get(Item(mappings, "PaidAmount"), "source_column", None), source_df)
     /\ NoSourceColumn(mappings, "ConsumptionAmount"))
    => \A i \in 1..Len(result_df.rows) :
          /\ IsNA(result_df.rows[i]["ConsumptionAmount"])
          /\ result_df.rows[i]["PaidAmount"]
                = ToFloat(source_df.rows[i][Item(mappings, "PaidAmount").source_column.v])

C13_Witness ==
    /\ pc = "done"
    /\ calc_method = "Expense-based"
    /\ HasKey(mappings, "ConsumptionAmount")
    /\ Item(mappings, "ConsumptionAmount") = Info(None, StrV(Currency))
    /\ Len(returned.FE1_EmissionActivityData.rows) = 2
    /\ returned.FE1_EmissionActivityData.rows[2]["ConsumptionAmount"] = None
    /\ returned.FE1_EmissionActivityData.rows[2]["PaidAmount"] = FloatV(5)

(* C14: in a Consumption-based run for Business Travel / Air Travel with   *)
(* ConsumptionAmount.consumption_type 'distance' on a source that has an   *)
(* origin and a destination airport column holding valid IATA codes, the   *)
(* ConsumptionAmount of every fact row is calculate_airport_distance of    *)
(* the origin and destination codes of its source row, whatever other      *)
(* columns and values the source has.                                      *)
C14_DistanceOfOriginAndDestination ==
    (/\ InFact
     /\ IsAirTravelRun(calc_method, activity_cat, activity_subcat)
     /\ HasKey(mappings, "ConsumptionAmount")
     /\ Get(Item(mappings, "ConsumptionAmount"), "consumption_type", None)
           = StrV(Lower(Distance))
     /\ {"Origin", "Destination"} \subseteq Range(source_df.cols))
    => \A i \in 1..Len(result_df.rows) :
          result_df.rows[i]["ConsumptionAmount"]
             = OptFloat(calculate_airport_distance(source_df.rows[i]["Origin"],
                                                   source_df.rows[i]["Destination"]))

(* The run without a further column, where the distance is that of the     *)
(* two columns.                                                            *)
C14_TwoColumnsWitness ==
    /\ pc = "done"
    /\ source_df.cols = TravelCols
    /\ Len(source_df.rows) = 1
    /\ source_df.rows[1]["Origin"] = StrV(JFK)
    /\ source_df.rows[1]["Destination"] = StrV(LHR)
    /\ returned.FE1_EmissionActivityData.rows[1]["ConsumptionAmount"]
          = [k |-> "km", v |-> {JFK, LHR}]

(* The output table that a foreign key of the fact table refers to; the    *)
(* key column of that table has the name of the foreign key.               *)
ForeignKeys ==
    [CompanyID |-> "D_Company", CountryID |-> "D_Country",
     ActivityCategoryID |-> "DE1_ActivityCategory",
     ActivitySubcategoryID |-> "DE1_ActivitySubcategory", ScopeID |-> "DE1_Scopes",
     ActivityEmissionSourceID |-> "DE1_ActivityEmissionSource", UnitID |-> "DE1_Unit",
     ActivityEmissionSourceProviderID |-> "DE1_ActivityEmissionSourceProvi",
     CurrencyID |-> "D_Currency", DateKey |-> "D_Date"]

(* The key that a cell denotes: a number, also when written as digits (the *)
(* fact table holds int(date_key), the date table the digits).             *)
KeyOf(c) ==
    IF c.k \in {"int", "float"} THEN IntV(c.v)
    ELSE IF c.k = "str" /\ c.v # <<>> /\ IsDigits(c.v) THEN IntV(ParseNat(c.v))
    ELSE c

---------------------------------------------------------------------------
(* Properties of the dimension tables of a run *)

(* The dimension tables as the run holds them, by the name of their sheet, *)
(* and the ID column of each.                                              *)
DimTables ==
    [D_Country |-> country_df, D_Company |-> company_df, D_Currency |-> currency_df,
     DE1_ActivityEmissionSourceProvi |-> activity_emmission_source_provider_df,
     DE1_Unit |-> unit_df]
DimIdColumn ==
    [D_Country |-> "CountryID", D_Company |-> "CompanyID", D_Currency |-> "CurrencyID",
     DE1_ActivityEmissionSourceProvi |-> "ActivityEmissionSourceProviderID",
     DE1_Unit |-> "UnitID"]

(* The table that a step of the run starts from: the table of the run, or  *)
(* the destination table while the run has not synchronized it.            *)
TableBefore(name) ==
    IF IsTable(DimTables[name]) THEN DimTables[name] ELSE dest_tables[name]

(* Every row appended to old has as ID the greatest ID of the rows before  *)
(* it plus 1, and 1 when there is no row before it.                        *)
FreshIds(old, new, id_column) ==
    \A i \in (Len(old.rows) + 1)..Len(new.rows) :
        new.rows[i][id_column]
            = IF i = 1 THEN IntV(1)
              ELSE MaxPlusOne(DataFrame(new.cols, SubSeq(new.rows, 1, i - 1)), id_column)

(* The rows of old are the first rows of new, in their order, the same in  *)
(* every column but those of `but`.                                        *)
KeepsRows(old, new, but) ==
    /\ Len(new.rows) >= Len(old.rows)
    /\ \A i \in 1..Len(old.rows) :
          \A c \in Range(old.cols) \ but : new.rows[i][c] = old.rows[i][c]

---------------------------------------------------------------------------
(* Properties of the natural keys, in the synchronizer specification *)

(* C17: after any sequence of synchronizations that starts from a table    *)
(* whose rows have distinct natural keys, every row of the dimension table *)
(* has a natural-key value and no two rows share one.                      *)
C17_NaturalKeysPresentAndDistinct ==
    dim.kind # "" =>
        /\ \A i \in 1..Len(dim.table.rows) :
              ~IsNA(dim.table.rows[i][KeyColumn(dim.kind)])
        /\ \A i, j \in 1..Len(dim.table.rows) :
              i # j => dim.table.rows[i][KeyColumn(dim.kind)]
                          # dim.table.rows[j][KeyColumn(dim.kind)]

(* The provider table after two calls that appended two providers. *)
C17_ProviderWitness ==
    /\ dim.kind = "provider"
    /\ dim.calls = 2
    /\ Len(dim.table.rows) = 3
    /\ \A i \in 1..3 : dim.table.rows[i]["ProviderName"].k = "str"

---------------------------------------------------------------------------
(* Properties of the progress state *)

(* The updates of the progress state in their order: generate_fact first   *)
(* sets total_records to the number of source rows, processed_records to   *)
(* 0 and the status to Processing; each processed row raises               *)
(* processed_records by one; the status becomes Complete after the last    *)
(* row, and nothing else changes the progress state.                       *)
ProgressInOrder ==
    [][/\ pc = "fact" =>
             /\ progress'.total_records = Len(source_df.rows)
             /\ progress'.processed_records = 0
             /\ progress'.status = "Processing"
       /\ (pc = "rows" /\ pc' = "rows") =>
             /\ progress'.processed_records = progress.processed_records + 1
             /\ progress'.processed_records = Len(result_df'.rows)
             /\ progress'.status = "Processing"
             /\ progress'.total_records = progress.total_records
       /\ (pc = "rows" /\ pc' = "write") =>
             /\ progress.processed_records = progress.total_records
             /\ progress' = [progress EXCEPT !.status = "Complete"]
       /\ (pc \notin {"fact", "rows"} \/ (pc = "rows" /\ pc' = "error")) =>
             progress' = progress]_vars

(* processed_records never exceeds total_records, and the status is        *)
(* Complete only when the two are equal.                                   *)
ProgressInBounds ==
    /\ progress.processed_records <= progress.total_records
    /\ progress.status = "Complete" =>
          progress.processed_records = progress.total_records

(* C18: during generate_fact over n source rows the progress state first   *)
(* shows total_records n, processed_records 0 and the status Processing,   *)
(* then processed_records takes the values 1, ..., n with one update per   *)
(* row, and finally the status becomes Complete; processed_records never   *)
(* decreases and never exceeds total_records, the status is Complete only  *)
(* when processed_records = total_records, and every run of generate_fact  *)
(* reaches Complete.                                                       *)
C18_ProgressRunsToComplete ==
    /\ ProgressInOrder
    /\ []ProgressInBounds
    /\ (progress.status = "Processing") ~> (progress.status = "Complete")

(* A run of two rows that reached Complete. *)
C18_CompleteWitness ==
    /\ pc = "done"
    /\ progress.total_records = 2
    /\ progress.processed_records = 2
    /\ progress.status = "Complete"

(* Every run ends: it returns or it raises. *)
RunEnds == <>(pc \in {"done", "error"})

---------------------------------------------------------------------------
(* Properties of the resolver specification *)

(* The consumption_type of the mapping is admissible for the calculation   *)
(* method.                                                                 *)
AdmissibleType ==
    /\ HasKey(mappings, "ConsumptionAmount")
    /\ Item(mappings, "ConsumptionAmount").consumption_type.k = "str"
    /\ Lower(Item(mappings, "ConsumptionAmount").consumption_type.v)
          \in {Lower(x) : x \in valid_transformations(calc_method)}

(* The rows of the emission-source table that belong to the run's          *)
(* subcategory and whose name ends with the consumption_type.              *)
SourceRowsOfType ==
    LET df == dest_tables.DE1_ActivityEmissionSource
    IN  {i \in 1..Len(df.rows) :
            /\ \E j \in 1..Len(dest_tables.DE1_ActivitySubcategory.rows) :
                  /\ dest_tables.DE1_ActivitySubcategory.rows[j]["ActivitySubcategoryName"]
                        = StrV(activity_subcat)
                  /\ dest_tables.DE1_ActivitySubcategory.rows[j]["ActivitySubcategoryID"]
                        = df.rows[i]["ActivitySubcategoryID"]
            /\ EndsWith(Lower(df.rows[i]["ActivityEmissionSourceName"].v),
                        Lower(Item(mappings, "ConsumptionAmount").consumption_type.v))}

(* C19: find_emission_ids returns a triple that is not null exactly when   *)
(* the mapping has an admissible consumption_type and some row of the      *)
(* emission-source table has the run's subcategory ID and a name ending    *)
(* with that type; the triple is then the ID of the first such row, the    *)
(* UnitID of that row, and the ISO2 code of the run's country, '_' and     *)
(* the name of that row; this for every ID that the table may hold.        *)
C19_TripleOfFirstMatchingRow ==
    pc = "resolved" =>
        LET df == dest_tables.DE1_ActivityEmissionSource
            found == AdmissibleType /\ SourceRowsOfType # {}
        IN  /\ (emission_ids # NoIds) <=> found
            /\ found =>
                  \E i \in SourceRowsOfType :
                      /\ \A h \in SourceRowsOfType : i <= h
                      /\ emission_ids
                            = Ids(df.rows[i]["ActivityEmissionSourceID"],
                                  df.rows[i]["UnitID"],
                                  StrV(US \o <<"_">>
                                       \o df.rows[i]["ActivityEmissionSourceName"].v))

(* The call that resolves to the second row of the table. *)
C19_SecondRowWitness ==
    /\ pc = "resolved"
    /\ calc_method = "Expense-based"
    /\ Len(dest_tables.DE1_ActivityEmissionSource.rows) = 2
    /\ AdmissibleType
    /\ SourceRowsOfType = {2}
    /\ emission_ids = Ids(IntV(2), IntV(2), StrV(US \o <<"_">> \o AirCurrency))

---------------------------------------------------------------------------
(* Properties of the date key of the fact rows *)

(* C20: the DateKey of a fact row is resolved per row: when the DateKey    *)
(* mapping names a column of the source and the cell of the row parses as  *)
(* a date, it is that date formatted YYYYMMDD, a key of the date table;    *)
(* otherwise (no mapped column, a column that the source lacks, an empty   *)
(* or unparseable cell) it is the key of the reporting year,               *)
(* '{reporting_year}0101'.                                                 *)
C20_DateKeyPerRow ==
    InFact =>
        \A i \in 1..Len(result_df.rows) :
            LET sc == IF HasKey(mappings, "DateKey")
                      THEN Get(Item(mappings, "DateKey"), "source_column", None)
                      ELSE None
                cell == RowGet(source_df.rows[i], sc)
                key == KeyOf(result_df.rows[i]["DateKey"])
            IN  IF InColumns(sc, source_df) /\ ~IsNA(ToDatetime(cell))
                THEN /\ key = KeyOf(StrV(StrfYmd(ToDatetime(cell).v[1],
                                                 ToDatetime(cell).v[2],
                                                 ToDatetime(cell).v[3])))
                     /\ \E j \in 1..Len(date_df.rows) :
                           KeyOf(date_df.rows[j]["DateKey"]) = key
                ELSE key = IntV(ReportingYear * 10000 + 101)

(* A returned row whose date cell gives its own key, after a row with      *)
(* another date.                                                           *)
C20_ParsedDateWitness ==
    /\ pc = "done"
    /\ Len(source_df.rows) = 2
    /\ source_df.rows[1]["Date"] = DateV(2024, 1, 15)
    /\ source_df.rows[2]["Date"] = DateV(2024, 5, 2)
    /\ Item(mappings, "DateKey") = Info(ColV("Date"), None)
    /\ returned.FE1_EmissionActivityData.rows[2]["DateKey"] = IntV(20240502)


---------------------------------------------------------------------------
(* C21: the detection of the airport columns is first-match-wins: the      *)
(* origin column is the first source column, in column order, whose        *)
(* lower-cased name contains an origin pattern, the destination column is  *)
(* the first other source column whose lower-cased name contains a         *)
(* destination pattern, and columns matching later change neither.         *)
FirstOf(hits) == IF hits = <<>> THEN None ELSE ColV(hits[1])
HasDestinationPattern(column) ==
    \E pattern \in destination_patterns :
        StrContains(Strip(Lower(ColChars(column))), pattern)
C21_FirstMatchingColumns ==
    InFact =>
        LET first_origin == FirstOf(SelectSeq(source_df.cols, IsOriginName))
            first_destination ==
                FirstOf(SelectSeq(source_df.cols, LAMBDA c :
                            ColV(c) # first_origin /\ HasDestinationPattern(c)))
        IN  /\ origin_column(source_df) = first_origin
            /\ destination_column(source_df) = first_destination

(* The run on the two airport columns alone, where the first match is also *)
(* the last.                                                               *)
C21_OnlyMatchWitness ==
    /\ pc = "done"
    /\ source_df.cols = TravelCols
    /\ Len(source_df.rows) = 2
    /\ origin_column(source_df) = ColV("Origin")
    /\ destination_column(source_df) = ColV("Destination")


(* C22: in a Consumption-based Business Travel / Air Travel run with       *)
(* consumption_type 'distance' on a source without a detected origin or    *)
(* destination column, a row with at least two cells that are strings of   *)
(* three characters and, trimmed and upper-cased as the distance function  *)
(* does, keys of the airport table gets the distance of the first two such *)
(* codes in column order as ConsumptionAmount, and a row with fewer than   *)
(* two such cells gets null.                                               *)
CodeCells(df, source_row) ==
    SelectSeq([i \in 1..Len(df.cols) |-> source_row[df.cols[i]]],
              LAMBDA cell : IsAirportKey(cell) /\ Len(Strip(cell.v)) = 3)
RunWideColumns ==
    {"CompanyID", "CountryID", "ActivityCategoryID", "ActivitySubcategoryID",
     "ScopeID", "ActivityEmissionSourceID", "UnitID", "EmissionFactorID"}
C23_RunWideKeysIdentical ==
    InFact =>
        \A i, j \in 1..Len(result_df.rows) : \A c \in RunWideColumns :
            result_df.rows[i][c] = result_df.rows[j][c]

(* Two fact rows of source rows that differ in the Code cell, with the     *)
(* same unit and emission factor, which are not null.                      *)
C23_TwoRowsWitness ==
    /\ pc = "done"
    /\ Len(result_df.rows) = 2
    /\ source_df.rows[1]["Code"] # source_df.rows[2]["Code"]
    /\ result_df.rows[1]["UnitID"] = IntV(1)
    /\ result_df.rows[2]["UnitID"] = IntV(1)
    /\ result_df.rows[2]["CompanyID"] = IntV(1)
    /\ ~IsNA(result_df.rows[2]["EmissionFactorID"])


(* C24: transform_unit adds rows to the unit table only when calc_method   *)
(* is 'Consumption-based' and the UnitID entry of the mapping names a      *)
(* column of the source; for every other calc_method it returns a table    *)
(* with exactly the rows of the destination unit table, whatever the       *)
(* mapping and the source contain.                                         *)
UnitReturned == IsTable(unit_df)
UnitRaised == pc = "error" /\ err.at = "transform_unit"
C24_UnitTableGrowsOnlyForConsumption ==
    /\ (UnitReturned /\ unit_df.rows # dest_tables.DE1_Unit.rows)
          => /\ calc_method = "Consumption-based"
             /\ SourceColumnOf(mappings, "UnitID") # None
             /\ InColumns(SourceColumnOf(mappings, "UnitID"), source_df)
    /\ calc_method # "Consumption-based"
          => /\ ~UnitRaised
             /\ UnitReturned => unit_df = dest_tables.DE1_Unit

(* An Expense-based run whose UnitID entry names a source column holding a *)
(* unit that the destination lacks: the unit table is the destination's.   *)
C24_ExpensePassThroughWitness ==
    /\ pc = "done"
    /\ calc_method = "Expense-based"
    /\ SourceColumnOf(mappings, "UnitID") = ColV("Code")
    /\ \E i \in 1..Len(source_df.rows) : source_df.rows[i]["Code"] = StrV(EUR)
    /\ unit_df = dest_tables.DE1_Unit
    /\ returned.DE1_Unit = dest_tables.DE1_Unit


(* C26: relate_country_company changes only the CountryID and updated_at   *)
(* cells of the company rows whose CompanyName equals the given company,   *)
(* setting CountryID to the ID of the country row matching the given       *)
(* country name; every other company row and column is unchanged, the      *)
(* country table is unchanged, and when no country row matches the company *)
(* table is returned unchanged.                                            *)
MatchingCountryRows ==
    SelectSeq(Indices(country_df),
              LAMBDA i : country_df.rows[i]["CountryName"] = StrV(country))
RelateStep == pc = "relate" /\ pc' = "date"
C26_RelateChangesOnlyTheCompanyRow ==
    [][RelateStep =>
          /\ country_df' = country_df
          /\ company_df'.cols = company_df.cols
          /\ Len(company_df'.rows) = Len(company_df.rows)
          /\ MatchingCountryRows = <<>> => company_df' = company_df
          /\ \A i \in 1..Len(company_df.rows) : \A c \in Range(company_df.cols) :
                IF /\ MatchingCountryRows # <<>>
                   /\ company_df.rows[i]["CompanyName"] = StrV(company)
                   /\ c = "CountryID"
                THEN company_df'.rows[i][c]
                        = country_df.rows[MatchingCountryRows[1]]["CountryID"]
                ELSE \/ company_df'.rows[i][c] = company_df.rows[i][c]
                     \/ /\ MatchingCountryRows # <<>>
                        /\ company_df.rows[i]["CompanyName"] = StrV(company)
                        /\ c = "updated_at"]_vars

(* After the relation of the appended company Bolt with the appended       *)
(* country Peru: the row of Bolt has the ID of Peru, the row of Acme is    *)
(* the destination's.                                                      *)
C26_AppendedCompanyWitness ==
    /\ pc = "date"
    /\ company = Bolt /\ country = Peru
    /\ Len(company_df.rows) = 2
    /\ company_df.rows[1] = dest_tables.D_Company.rows[1]
    /\ company_df.rows[2]["CompanyName"] = StrV(Bolt)
    /\ company_df.rows[2]["CountryID"] = IntV(2)
    /\ country_df.rows[2]["CountryName"] = StrV(Peru)

(* After the relation with the country US, which is in no row of the       *)
(* country table: the company table is as the company step left it.        *)
C26_NoCountryRowSeen ==
    /\ pc = "date"
    /\ country = US
    /\ MatchingCountryRows = <<>>

(* The name is in a row of the table, compared as lookup_value compares;   *)
(* the name is hidden when a row contains it as the upsert tests it and no *)
(* row holds it.                                                           *)
NameHeld(name, df, column) ==
    \E i \in 1..Len(df.rows) : Lower(ToStr(df.rows[i][column])) = Lower(name)
NameHidden(name, df, column) ==
    AnyContains(df, column, name) /\ ~NameHeld(name, df, column)

MappedColumnIn(key) ==
    /\ HasKey(mappings, key)
    /\ "source_column" \in DOMAIN Item(mappings, key)
    /\ InColumns(Item(mappings, key)["source_column"], source_df)
ResolvesCells(key, df, natural_key) ==
    MappedColumnIn(key) =>
        \A i \in 1..Len(result_df.rows) :
            LET cell == source_df.rows[i][Item(mappings, key)["source_column"].v]
            IN  ~IsNA(cell) =>
                    /\ ~IsNA(result_df.rows[i][key])
                    /\ \E j \in 1..Len(df.rows) :
                          /\ df.rows[j][natural_key] = cell
                          /\ KeyOf(df.rows[j][key]) = KeyOf(result_df.rows[i][key])

(* C29: after the currency and provider synchronization of a run, every    *)
(* source row whose cell in the column mapped to CurrencyID (to            *)
(* ActivityEmissionSourceProviderID) is not null gets in its fact row a    *)
(* CurrencyID (provider ID) that is not null, the ID of the dimension row  *)
(* holding that value, also for values appended in this run.               *)
C29_ProviderCellsResolve ==
    InFact => ResolvesCells("ActivityEmissionSourceProviderID",
                            activity_emmission_source_provider_df, "ProviderName")
C29_CurrencyAndProviderCellsResolve ==
    InFact =>
        /\ ResolvesCells("CurrencyID", currency_df, "CurrencyCode")
        /\ ResolvesCells("ActivityEmissionSourceProviderID",
                         activity_emmission_source_provider_df, "ProviderName")

(* A finished run whose second row holds EUR, which the provider           *)
(* synchronization appended: its provider ID is that of the appended row.  *)
C29_AppendedProviderWitness ==
    /\ pc = "done"
    /\ mappings = PlainMapping
    /\ Len(result_df.rows) = 2
    /\ source_df.rows[2]["Code"] = StrV(EUR)
    /\ Len(activity_emmission_source_provider_df.rows) = 2
    /\ activity_emmission_source_provider_df.rows[2]["ProviderName"] = StrV(EUR)
    /\ result_df.rows[2]["ActivityEmissionSourceProviderID"] = IntV(2)
    /\ result_df.rows[1]["CurrencyID"] = IntV(1)

(* C30: the country recorded for the company agrees with the fact table:   *)
(* the CountryID that relate_country_company stored on the company row of  *)
(* the run equals the CountryID of every fact row of the run, for every    *)
(* country name, whatever its letter case, and every initial country       *)
(* table.                                                                  *)
C30_CompanyCountryAgreesWithFacts ==
    InFact =>
        \A j \in 1..Len(company_df.rows) :
            company_df.rows[j]["CompanyName"] = StrV(company) =>
                \A i \in 1..Len(result_df.rows) :
                    KeyOf(company_df.rows[j]["CountryID"])
                       = KeyOf(result_df.rows[i]["CountryID"])

(* A finished run for the appended company Bolt and the appended country   *)
(* Peru: the company row and the fact rows hold the ID of Peru.            *)
C30_AppendedCountryWitness ==
    /\ pc = "done"
    /\ company = Bolt /\ country = Peru
    /\ Len(result_df.rows) = 1
    /\ returned.D_Company.rows[2]["CountryID"] = IntV(2)
    /\ returned.FE1_EmissionActivityData.rows[1]["CountryID"] = IntV(2)

---------------------------------------------------------------------------
(* Properties of the specification of successive runs *)

(* A table without its timestamps. *)
SansTimes(df) ==
    DataFrame(df.cols, [i \in 1..Len(df.rows) |->
        [c \in DOMAIN df.rows[i] |->
            IF c \in {"created_at", "updated_at"} THEN None ELSE df.rows[i][c]]])

(* The dimension tables that a run alone on the destination tables d gives *)
(* for the inputs of the state.                                            *)
AloneOn(d) ==
    [D_Country |-> transform_dimension(country, d.D_Country, "CountryName",
                                       "CountryID", 0),
     D_Company |-> relate_country_company(country, company,
                       transform_dimension(company, d.D_Company, "CompanyName",
                                           "CompanyID", 0),
                       transform_dimension(country, d.D_Country, "CountryName",
                                           "CountryID", 0), 0),
     D_Currency |-> transform_D_Currency(mappings, source_df, d.D_Currency, 0),
     DE1_ActivityEmissionSourceProvi |->
         transform_emission_source_provider(mappings, source_df,
                                            d.DE1_ActivityEmissionSourceProvi),
     DE1_Unit |-> transform_unit(mappings, source_df, d.DE1_Unit, calc_method, 0),
     DE1_ActivityCategory |-> d.DE1_ActivityCategory,
     DE1_ActivitySubcategory |-> d.DE1_ActivitySubcategory,
     DE1_Scopes |-> d.DE1_Scopes,
     DE1_ActivityEmissionSource |-> d.DE1_ActivityEmissionSource]

(* C27: a run works on its own copies: no step of transform_data or of a   *)
(* function it calls changes the destination tables or the source table    *)
(* of the caller, so a run that follows another on the same destination    *)
(* tables returns the tables that it returns alone.                        *)
C27_CallerTablesUnchanged ==
    [][/\ dest_tables' = dest_tables
       /\ source_df' = source_df
       /\ pc' = "done" =>
             \A sheet \in DOMAIN AloneOn(DestTables(<<>>)) :
                 SansTimes(returned'[sheet])
                    = SansTimes(AloneOn(DestTables(<<>>))[sheet])]_vars

(* A second run has returned, for the company Bolt and the country USA:    *)
(* the caller's tables are the destination tables, the row of Acme is the  *)
(* destination's whatever the first run related it to, and the country     *)
(* table holds no country of the first run.                                *)
C27_SecondRunWitness ==
    /\ pc = "done"
    /\ now > RunTicks(source_df)
    /\ company = Bolt /\ country = USA
    /\ dest_tables = DestTables(<<>>)
    /\ Len(returned.D_Company.rows) = 2
    /\ returned.D_Company.rows[1]["CountryID"] = IntV(1)
    /\ returned.D_Company.rows[2]["CountryID"] = IntV(1)
    /\ Len(returned.D_Country.rows) = 1

---------------------------------------------------------------------------
(* Properties of the validator specification *)

(* C25: the duplicate check reports a primary-key duplication issue for a  *)
(* table exactly when two rows of the table have the same value in the     *)
(* column that the schema declares as the primary_key of the table;        *)
(* duplicates in any other column are not reported as primary-key          *)
(* duplicates.                                                             *)
ReportsPrimaryKeyDuplicates ==
    \E i \in 1..Len(val.issues) :
        val.issues[i].issue = "Found duplicate records for primary key column"
C25_ReportsDuplicatesOfDeclaredKey ==
    pc = "validated" =>
        LET primary_key == val.schema["D_Company"].primary_key
        IN  ReportsPrimaryKeyDuplicates
            <=> (/\ primary_key # None
                 /\ \E i, j \in 1..Len(val.df.rows) :
                       i # j /\ val.df.rows[i][primary_key.v] = val.df.rows[j][primary_key.v])

(* A table with two rows of the same CompanyID and different names, under  *)
(* a schema whose first column is the declared primary key CompanyID: the  *)
(* duplicates are reported.                                                *)
C25_FirstColumnKeyWitness ==
    /\ pc = "validated"
    /\ val.schema["D_Company"].primary_key = ColV("CompanyID")
    /\ val.schema["D_Company"].columns[1] = "CompanyID"
    /\ Len(val.df.rows) = 2
    /\ val.df.rows[1]["CompanyID"] = val.df.rows[2]["CompanyID"]
    /\ val.df.rows[1]["CompanyName"] # val.df.rows[2]["CompanyName"]
    /\ ReportsPrimaryKeyDuplicates
    /\ val.issues[1].count = 2

====
